---------------------------- MODULE Spec2Model ----------------------------
(***************************************************************************)
(* A model of the Bit Shift Assembler bs9 (src/bs9.c): a two pass cross    *)
(* assembler for the 6809 / 6309.  The module holds                        *)
(*   - the expression evaluator EvalOperand on operand texts,              *)
(*   - the two pass driver (Phase1, Phase2, main) with ParseLine,          *)
(*     DefineLabel, the pseudo ops and GenerateCode that the modelled      *)
(*     source lines use, writing the ROM image through Put,                *)
(*   - the S-record writer WriteS19Format / WriteS19Line.                  *)
(* Texts (operands, symbol names, record lines) are sequences of one       *)
(* character strings and are scanned the way the C code scans them.        *)
(***************************************************************************)
EXTENDS Integers, Sequences, FiniteSets, TLC

VARIABLES
  at,         \* where the run is (the step the program is about to take)
  shape,      \* how the operand text or the source file was built
  OpText,     \* the operand text handed to EvalOperand
  val,        \* the result of EvalOperand on OpText
  ROM,        \* the bytes of the 64K image that have been set (the rest is 0)
  SF,         \* the registered STORE requests (SFA, SFL, SFE, SFT, SFR)
  files,      \* the output files written, in order
  src,        \* the lines of the source file
  Optimize,   \* the command line switch -o
  Phase,      \* the pass, 1 or 2 (0 before Phase1 starts)
  LiNo,       \* the number of the line parsed last
  pc,         \* the program counter, -1 while it is not set
  lab,        \* the symbol table
  LOCK,       \* the addresses whose LOCK byte is set
  ADL,        \* the instruction lengths recorded per address (the rest is 0)
  ErrNum,     \* the error count
  IfLevel,    \* the nesting depth of conditional assembly
  SkipLine,   \* per nesting level: the lines of that level are skipped
  Skipping,   \* CheckSkip's result: some open level skips
  ForcedEnd,  \* END was met
  EnumValue,  \* the last used ENUM value
  fatal,      \* the message of the exit(1) that ended the run, or ""
  ub,         \* a C operation with undefined behaviour was executed
  written,    \* history: per address, the values that writers stored there
  ilog,       \* history: the instructions GenerateCode completed in pass 2
  deflog,     \* history: the definitions of labels by position
  asglog,     \* history: the definitions of labels by value
  capped,     \* history: Phase2 returned at the error cap with lines left
  CPU,        \* int CPU: the processor of the last CPU pseudo op
  DimOp,      \* int DimOp: the number of entries of Mat in use
  lib,        \* the lines of the file that INCLUDE can open
  sf,         \* FILE *sf: the file being read, "src" or "lib"
  IncludeStack, \* the frames [fp, LiNo] of the files that include sf
  Line,       \* char Line[]: the line that fgets read last
  Mac,        \* struct MacroStruct Mac[]: the recorded macros
  MacPtr,     \* char *MacPtr[1..MacLev]: the positions in the bodies expanded
  MacArgs,    \* char MacArgs[] and ArgPtr[]: the arguments of the last call
  maclog,     \* history: the calls of macros that ExpandMacro scanned
  DP,         \* int DP: the current direct page
  ol,         \* int ol: the opcode length of the instruction assembled last
  bss         \* int bss: the bss counter

exprVars == <<shape, OpText, val>>
asmVars  == <<src, Optimize, Phase, LiNo, pc, lab, LOCK, ADL, ErrNum, IfLevel,
              SkipLine, Skipping, ForcedEnd, EnumValue, fatal, ub, written,
              ilog, deflog, asglog, capped, CPU, DimOp, lib, sf, IncludeStack,
              Line, Mac, MacPtr, MacArgs, maclog, DP, ol, bss>>
vars == <<at, shape, OpText, val, ROM, SF, files, src, Optimize, Phase, LiNo,
          pc, lab, LOCK, ADL, ErrNum, IfLevel, SkipLine, Skipping, ForcedEnd,
          EnumValue, fatal, ub, written, ilog, deflog, asglog, capped, CPU,
          DimOp, lib, sf, IncludeStack, Line, Mac, MacPtr, MacArgs, maclog,
          DP, ol, bss>>

-----------------------------------------------------------------------------
(* Program constants *)

\* #define UNDEF (int) 0xff0000
UNDEF == 16711680

\* largest value of a C int of the build (32 bit)
INT_MAX == 2147483647

\* #define DIMOP_6809 139: the entries of Mat before the first of the 6309
DIMOP_6809 == 139

\* #define DIMOP_6309 (sizeof(Mat) / sizeof(struct MatStruct))
DIMOP_6309 == 224

\* #define MAXARGS 10: the arguments of a macro, and the size of ArgPtr
MAXARGS == 10

\* #define MAXMAC 200: the size of Mac
MAXMAC == 200

\* #define CHAMAC (the grave accent): marks an argument in a macro body.
\* No modelled line holds the character, and it is written as a word here.
CHAMAC == "CHAMAC"

\* int ERRMAX = 10: assembly stops after ERRMAX errors
ERRMAX == 10

\* the static initialisers of the globals: LiNo = 0, pc = -1, EnumValue = -1,
\* and zero for the globals without one; no source file is read
Statics ==
  /\ src = <<>> /\ Optimize = FALSE
  /\ Phase = 0 /\ LiNo = 0 /\ pc = -1
  /\ lab = <<>> /\ LOCK = {} /\ ADL = <<>>
  /\ ErrNum = 0 /\ IfLevel = 0
  /\ SkipLine = [i \in 0..9 |-> FALSE] /\ Skipping = FALSE
  /\ ForcedEnd = FALSE /\ EnumValue = -1
  /\ fatal = "" /\ ub = FALSE
  /\ written = <<>> /\ ilog = <<>> /\ deflog = <<>> /\ asglog = <<>>
  /\ capped = FALSE
  /\ CPU = 6309 /\ DimOp = DIMOP_6309
  /\ lib = <<>> /\ sf = "src" /\ IncludeStack = <<>> /\ Line = <<>>
  /\ Mac = <<>> /\ MacPtr = <<>> /\ MacArgs = <<>> /\ maclog = <<>>
  /\ DP = 0 /\ ol = 0 /\ bss = 0

-----------------------------------------------------------------------------
(* C integer arithmetic.  A result is a record [v, ub]: ub is set when the  *)
(* C operation has undefined behaviour (signed overflow, a shift count out *)
(* of 0..31, a left shift of a negative value), and v is then meaningless. *)

Abs(x) == IF x < 0 THEN -x ELSE x

Ok(x) == [v |-> x, ub |-> FALSE]
Ub    == [v |-> 0, ub |-> TRUE]

RECURSIVE Pow2(_)
Pow2(n) == IF n = 0 THEN 1 ELSE 2 * Pow2(n - 1)

\* two's complement bit operations, by floor halving (x \div 2 is x >> 1)
RECURSIVE BitAnd(_, _)
BitAnd(a, b) ==
  IF a = 0 \/ b = 0 THEN 0
  ELSE IF a = -1 THEN b
  ELSE IF b = -1 THEN a
  ELSE (a % 2) * (b % 2) + 2 * BitAnd(a \div 2, b \div 2)

RECURSIVE BitOr(_, _)
BitOr(a, b) ==
  IF a = 0 THEN b
  ELSE IF b = 0 THEN a
  ELSE IF a = -1 \/ b = -1 THEN -1
  ELSE (IF a % 2 = 1 \/ b % 2 = 1 THEN 1 ELSE 0) + 2 * BitOr(a \div 2, b \div 2)

RECURSIVE BitXor(_, _)
BitXor(a, b) ==
  IF a = 0 THEN b
  ELSE IF b = 0 THEN a
  ELSE IF a = -1 THEN -b - 1
  ELSE IF b = -1 THEN -a - 1
  ELSE (IF a % 2 = b % 2 THEN 0 ELSE 1) + 2 * BitXor(a \div 2, b \div 2)

\* int op_mul(int l, int r) { return l *  r; }
op_mul(l, r) ==
  IF l = 0 \/ r = 0 THEN Ok(0)
  ELSE IF Abs(l) > INT_MAX \div Abs(r) THEN Ub
  ELSE Ok(l * r)

\* int op_div(int l, int r) { if (r) return l / r; else return UNDEF; }
\* C division truncates towards zero
op_div(l, r) ==
  IF r = 0 THEN Ok(UNDEF)
  ELSE IF (l < 0) = (r < 0) THEN Ok(Abs(l) \div Abs(r))
  ELSE Ok(-(Abs(l) \div Abs(r)))

op_add(l, r) ==
  IF (r > 0 /\ l > INT_MAX - r) \/ (r < 0 /\ l < (-INT_MAX - 1) - r) THEN Ub
  ELSE Ok(l + r)

op_sub(l, r) ==
  IF (r < 0 /\ l > INT_MAX + r) \/ (r > 0 /\ l < (-INT_MAX - 1) + r) THEN Ub
  ELSE Ok(l - r)

op_asl(l, r) ==
  IF r < 0 \/ r > 31 \/ l < 0 THEN Ub
  ELSE IF l = 0 THEN Ok(0)
  ELSE IF r = 31 \/ l > INT_MAX \div Pow2(r) THEN Ub
  ELSE Ok(l * Pow2(r))

\* a right shift of a negative int is arithmetic in the build (gcc)
op_lsr(l, r) ==
  IF r < 0 \/ r > 31 THEN Ub
  ELSE IF r = 31 THEN Ok(IF l < 0 THEN -1 ELSE 0)
  ELSE Ok(l \div Pow2(r))

Bool(b) == IF b THEN 1 ELSE 0

op_cle(l, r) == Ok(Bool(l <= r))
op_clt(l, r) == Ok(Bool(l <  r))
op_cge(l, r) == Ok(Bool(l >= r))
op_cgt(l, r) == Ok(Bool(l >  r))
op_ceq(l, r) == Ok(Bool(l =  r))
op_cne(l, r) == Ok(Bool(l #  r))
op_xor(l, r) == Ok(BitXor(l, r))
op_and(l, r) == Ok(Bool(l # 0 /\ r # 0))
op_bnd(l, r) == Ok(BitAnd(l, r))
op_lor(l, r) == Ok(Bool(l # 0 \/ r # 0))
op_bor(l, r) == Ok(BitOr(l, r))

\* struct binop_struct binop[BINOPS]: operator text and priority, in the
\* order of the table (the scan takes the first entry that matches)
binop ==
  << [op |-> <<"*">>,      prio |-> 11],
     [op |-> <<"/">>,      prio |-> 11],
     [op |-> <<"+">>,      prio |-> 10],
     [op |-> <<"-">>,      prio |-> 10],
     [op |-> <<"<", "<">>, prio |->  9],
     [op |-> <<">", ">">>, prio |->  9],
     [op |-> <<"<", "=">>, prio |->  8],
     [op |-> <<"<">>,      prio |->  8],
     [op |-> <<">", "=">>, prio |->  8],
     [op |-> <<">">>,      prio |->  8],
     [op |-> <<"=", "=">>, prio |->  7],
     [op |-> <<"!", "=">>, prio |->  7],
     [op |-> <<"^">>,      prio |->  5],
     [op |-> <<"&", "&">>, prio |->  3],
     [op |-> <<"&">>,      prio |->  6],
     [op |-> <<"|", "|">>, prio |->  2],
     [op |-> <<"|">>,      prio |->  4] >>

BINOPS == Len(binop)

\* binop[i].foo(l, r)
binop_foo(i, l, r) ==
  CASE i = 1  -> op_mul(l, r)
    [] i = 2  -> op_div(l, r)
    [] i = 3  -> op_add(l, r)
    [] i = 4  -> op_sub(l, r)
    [] i = 5  -> op_asl(l, r)
    [] i = 6  -> op_lsr(l, r)
    [] i = 7  -> op_cle(l, r)
    [] i = 8  -> op_clt(l, r)
    [] i = 9  -> op_cge(l, r)
    [] i = 10 -> op_cgt(l, r)
    [] i = 11 -> op_ceq(l, r)
    [] i = 12 -> op_cne(l, r)
    [] i = 13 -> op_xor(l, r)
    [] i = 14 -> op_and(l, r)
    [] i = 15 -> op_bnd(l, r)
    [] i = 16 -> op_lor(l, r)
    [] OTHER  -> op_bor(l, r)

-----------------------------------------------------------------------------
(* Characters and texts.  A text is a sequence of one character strings;   *)
(* reading past its end gives "" (the terminating NUL).                    *)

At(s, i) == IF i >= 1 /\ i <= Len(s) THEN s[i] ELSE ""

DigitChars == {"0", "1", "2", "3", "4", "5", "6", "7", "8", "9"}
UpperChars == {"A", "B", "C", "D", "E", "F", "G", "H", "I", "J", "K", "L", "M",
               "N", "O", "P", "Q", "R", "S", "T", "U", "V", "W", "X", "Y", "Z"}
LowerChars == {"a", "b", "c", "d", "e", "f", "g", "h", "i", "j", "k", "l", "m",
               "n", "o", "p", "q", "r", "s", "t", "u", "v", "w", "x", "y", "z"}
AlphaChars == UpperChars \cup LowerChars

isdigit(c) == c \in DigitChars
isalpha(c) == c \in AlphaChars
isxdigit(c) == c \in DigitChars \cup {"A", "B", "C", "D", "E", "F",
                                      "a", "b", "c", "d", "e", "f"}

\* int isym(char c)
isym(c) == c \in {".", "$", "_"} \cup AlphaChars \cup DigitChars

\* int Nib2Byte(char nib)
Nib2Byte(c) ==
  CASE c \in {"0"} -> 0  [] c \in {"1"} -> 1  [] c \in {"2"} -> 2
    [] c \in {"3"} -> 3  [] c \in {"4"} -> 4  [] c \in {"5"} -> 5
    [] c \in {"6"} -> 6  [] c \in {"7"} -> 7  [] c \in {"8"} -> 8
    [] c \in {"9"} -> 9
    [] c \in {"A", "a"} -> 10  [] c \in {"B", "b"} -> 11
    [] c \in {"C", "c"} -> 12  [] c \in {"D", "d"} -> 13
    [] c \in {"E", "e"} -> 14  [] c \in {"F", "f"} -> 15
    [] OTHER -> -1

\* char *SkipSpace(char *p)
RECURSIVE SkipSpace(_, _)
SkipSpace(s, i) == IF At(s, i) = " " THEN SkipSpace(s, i + 1) ELSE i

\* strncmp(p, m, strlen(m)) == 0: the text at i starts with m
StartsWith(s, i, m) == \A k \in 1..Len(m) : At(s, i + k - 1) = m[k]

\* the index after the last character of the run of characters of set C at i
RECURSIVE SkipWhile(_, _, _)
SkipWhile(s, i, C) == IF At(s, i) \in C THEN SkipWhile(s, i + 1, C) ELSE i

\* s[i .. j-1]
Slice(s, i, j) == SubSeq(s, i, j - 1)

\* atoi on a run of decimal digits
RECURSIVE DecValue(_)
DecValue(d) ==
  IF d = <<>> THEN 0
  ELSE 10 * DecValue(SubSeq(d, 1, Len(d) - 1)) + Nib2Byte(d[Len(d)])

\* strtoll(..,16) & 0xffffffff stored in an int: the low 32 bits, signed
RECURSIVE HexValue(_)
HexValue(d) ==
  IF d = <<>> THEN 0
  ELSE LET low28 == HexValue(SubSeq(d, 1, Len(d) - 1)) % Pow2(28)
           top   == IF low28 >= Pow2(27) THEN low28 - Pow2(28) ELSE low28
       IN  top * 16 + Nib2Byte(d[Len(d)])

UpperSeq == <<"A", "B", "C", "D", "E", "F", "G", "H", "I", "J", "K", "L", "M",
              "N", "O", "P", "Q", "R", "S", "T", "U", "V", "W", "X", "Y", "Z">>
LowerSeq == <<"a", "b", "c", "d", "e", "f", "g", "h", "i", "j", "k", "l", "m",
              "n", "o", "p", "q", "r", "s", "t", "u", "v", "w", "x", "y", "z">>

toupper(c) ==
  IF c \in LowerChars
  THEN UpperSeq[CHOOSE k \in 1..26 : LowerSeq[k] = c]
  ELSE c

ToUpperText(s) == [k \in 1..Len(s) |-> toupper(s[k])]

\* StrCaseCmp(a, b) == 0
StrCaseEq(a, b) == ToUpperText(a) = ToUpperText(b)

-----------------------------------------------------------------------------
(* The symbol table.  lab maps a symbol name to its entry; the fields are  *)
(* those of struct LabelStruct that the modelled code reads.               *)

\* struct MatStruct Mat[]: the entries of the mnemonics that the modelled
\* source lines use, in table order, with the opcode per address mode
\* (-1: the mnemonic has no such mode).  Row is the index of the entry in
\* the table of the source, CPU its column 0 (0: 6809, 1: 6309 only)
Mat == <<
  [Mne |-> <<"J","M","P">>, Row |-> 11, CPU |-> 0,
   Inherent |-> -1, Relative |-> -1, Immediate |-> -1,
   Direct |-> 14, Indexed |-> 110, Extended |-> 126],
  [Mne |-> <<"N","O","P">>, Row |-> 13, CPU |-> 0,
   Inherent |-> 18, Relative |-> -1, Immediate |-> -1,
   Direct |-> -1, Indexed |-> -1, Extended |-> -1],
  [Mne |-> <<"L","B","R","A">>, Row |-> 15, CPU |-> 0,
   Inherent |-> -1, Relative |-> 22, Immediate |-> -1,
   Direct |-> -1, Indexed |-> -1, Extended |-> -1],
  [Mne |-> <<"B","R","A">>, Row |-> 23, CPU |-> 0,
   Inherent |-> -1, Relative |-> 32, Immediate |-> -1,
   Direct |-> -1, Indexed |-> -1, Extended |-> -1],
  [Mne |-> <<"B","N","E">>, Row |-> 31, CPU |-> 0,
   Inherent |-> -1, Relative |-> 38, Immediate |-> -1,
   Direct |-> -1, Indexed |-> -1, Extended |-> -1],
  [Mne |-> <<"R","T","S">>, Row |-> 49, CPU |-> 0,
   Inherent |-> 57, Relative |-> -1, Immediate |-> -1,
   Direct |-> -1, Indexed |-> -1, Extended |-> -1],
  [Mne |-> <<"L","D","A">>, Row |-> 86, CPU |-> 0,
   Inherent |-> -1, Relative |-> -1, Immediate |-> 134,
   Direct |-> 150, Indexed |-> 166, Extended |-> 182],
  [Mne |-> <<"L","B","N","E">>, Row |-> 120, CPU |-> 0,
   Inherent |-> -1, Relative |-> 4134, Immediate |-> -1,
   Direct |-> -1, Indexed |-> -1, Extended |-> -1],
  [Mne |-> <<"C","M","P","U">>, Row |-> 138, CPU |-> 0,
   Inherent |-> -1, Relative |-> -1, Immediate |-> 4483,
   Direct |-> 4499, Indexed |-> 4515, Extended |-> 4531],
  [Mne |-> <<"C","M","P","S">>, Row |-> 139, CPU |-> 0,
   Inherent |-> -1, Relative |-> -1, Immediate |-> 4492,
   Direct |-> 4508, Indexed |-> 4524, Extended |-> 4540],
  [Mne |-> <<"S","E","X","W">>, Row |-> 140, CPU |-> 1,
   Inherent |-> 20, Relative |-> -1, Immediate |-> -1,
   Direct |-> -1, Indexed |-> -1, Extended |-> -1],
  [Mne |-> <<"L","D","W">>, Row |-> 200, CPU |-> 1,
   Inherent |-> -1, Relative |-> -1, Immediate |-> 4230,
   Direct |-> 4246, Indexed |-> 4262, Extended |-> 4278] >>

\* the entries of the model's table that Mat[0..d-1] of the source holds
InUse(d) == {k \in 1..Len(Mat) : Mat[k].Row < d}

Mnemonics(d) == {Mat[k].Mne : k \in InUse(d)}

\* struct PseudoStruct PseudoTab[]: the keywords of the pseudo ops that the
\* modelled source lines use, in table order
PseudoTab == << <<"B","Y","T","E">>, <<"C","P","U">>, <<"E","N","D">>,
               <<"I","N","C","L","U","D","E">>, <<"L","O","A","D">>,
               <<"O","R","G">>, <<"S","E","T","D","P">>,
               <<"S","T","O","R","E">> >>

PSEUDOS == Len(PseudoTab)

PseudoKeywords == {PseudoTab[i] : i \in 1..PSEUDOS}

NewLabel == [Address |-> UNDEF, Bytes |-> 0, Locked |-> FALSE, Paired |-> FALSE]

\* void AddLabel(char *p): "" on success, else the message of the exit
AddLabelErr(name, d) ==
  IF \E m \in Mnemonics(d) : StrCaseEq(name, m)
  THEN "Use of reserved mnemonic as label or operand"
  ELSE IF \E k \in PseudoKeywords : StrCaseEq(name, k)
  THEN "Use of reserved keyword as label or operand"
  ELSE ""

AddLabel(l, name) == [n \in DOMAIN l \cup {name} |->
                        IF n \in DOMAIN l THEN l[n] ELSE NewLabel]

\* char *GetSymbol(char *p, char *s): the symbol (with the scope prefix of a
\* local symbol) and the index after it
GetSymbol(s, i, Scope) ==
  LET loc  == At(s, i) = "." /\ Scope # <<>>
      pre  == IF loc THEN Scope \o <<".">> ELSE <<>>
      j    == IF loc THEN i + 1 ELSE i
      k    == IF At(s, j) = "_" \/ isalpha(At(s, j))
              THEN SkipWhile(s, j, {".", "$", "_"} \cup AlphaChars \cup DigitChars)
              ELSE j
  IN  [Sym |-> pre \o Slice(s, j, k), p |-> k]

-----------------------------------------------------------------------------
(* EvalOperand.  The evaluation state e holds what the evaluator reads and *)
(* changes: lab (AddLabel enters unknown symbols), ForcedMode (set by the  *)
(* unary < and >), and pc and Scope, which it only reads.  A result is     *)
(*   [v, set, p, e, err, ub]                                               *)
(* v and set: the value stored through the int *v, and whether one was     *)
(* stored at all (a return at a comma stores none); p: the index of the    *)
(* first character not consumed; err: "" or the message the evaluator      *)
(* exits with; ub: a C operation with undefined behaviour was evaluated.   *)

EvalRes(v, p, e) ==
  [v |-> v, set |-> TRUE, p |-> p, e |-> e, err |-> "", ub |-> FALSE]

EvalExit(msg, p, e) ==
  [v |-> UNDEF, set |-> FALSE, p |-> p, e |-> e, err |-> msg, ub |-> FALSE]

\* char *EvalSymValue(char *p, int *v) and, with bytes set, EvalSymBytes
EvalSym(s, i, e, bytes) ==
  LET Reserved(g, err) ==
        IF err # "" THEN EvalExit(err, g.p, e)
        ELSE EvalRes(UNDEF, g.p, [e EXCEPT !.lab = AddLabel(e.lab, g.Sym)])
      Found(g) ==
        IF g.Sym \in DOMAIN e.lab
        THEN EvalRes(IF bytes THEN e.lab[g.Sym].Bytes
                     ELSE e.lab[g.Sym].Address, g.p, e)
        ELSE Reserved(g, AddLabelErr(g.Sym, e.DimOp))
  IN  Found(GetSymbol(s, i, e.Scope))

\* char *EvalHexValue(char *p, int *v), on a run of hex digits
EvalHexValue(s, i, e) ==
  LET j == SkipWhile(s, i, {c \in DigitChars \cup AlphaChars : isxdigit(c)})
  IN  EvalRes(HexValue(Slice(s, i, j)), j, e)

\* the number of leading hex digits, at most 5
RECURSIVE HexRun(_, _, _)
HexRun(s, i, n) ==
  IF n < 5 /\ isxdigit(At(s, i + n)) THEN HexRun(s, i, n + 1) ELSE n

\* char *EvalDecValue(char *p, int *v)
EvalDecValue(s, i, e) ==
  LET n == HexRun(s, i, 0)
      j == SkipWhile(s, i, DigitChars)
  IN  IF At(s, i + n) \in {"H", "h"}
      THEN [EvalHexValue(s, i, e) EXCEPT !.p = @ + 1]
      ELSE IF isalpha(At(s, j))
      THEN EvalExit(IF isxdigit(At(s, j))
                    THEN "Wrong decimal constant or leading $ for hex missing"
                    ELSE "Illegal character in decimal constant", j, e)
      ELSE IF j - i > 9
      THEN [EvalRes(0, j, e) EXCEPT !.ub = TRUE]
      ELSE EvalRes(DecValue(Slice(s, i, j)), j, e)

\* a variant of LeaveToCaller under which operators of equal priority
\* group from the right
LeaveToCaller_strict(o, prio) == o < prio

\* if ((o = binop[i].prio) <= prio): the operator is left to the caller
LeaveToCaller(o, prio) == o <= prio

\* the first entry of binop whose text is at i, or 0
MatchBinop(s, i) ==
  IF \E k \in 1..BINOPS : StartsWith(s, i, binop[k].op)
  THEN CHOOSE k \in 1..BINOPS :
         /\ StartsWith(s, i, binop[k].op)
         /\ \A j \in 1..(k - 1) : ~StartsWith(s, i, binop[j].op)
  ELSE 0

RECURSIVE EvalOperand(_, _, _, _)
RECURSIVE EvalBinops(_, _, _, _, _)

\* the loop of EvalOperand after the right operand w was evaluated: r = foo(r,w)
\* with the value f, unless w is UNDEF or an operand is not a value at all
BinopApplied(s, r, prio, w, f) ==
  IF w.err # "" THEN w
  ELSE IF ~w.set \/ w.ub \/ r.ub
  THEN EvalBinops(s, w.p, [r EXCEPT !.ub = TRUE], prio, w.e)
  ELSE IF w.v = UNDEF
  THEN EvalBinops(s, w.p, [r EXCEPT !.v = UNDEF], prio, w.e)
  ELSE EvalBinops(s, w.p, [r EXCEPT !.v = f.v, !.ub = f.ub], prio, w.e)

\* the loop of EvalOperand after the right operand w of binop[k] was
\* evaluated
BinopRight(s, r, prio, k, w) ==
  BinopApplied(s, r, prio, w, binop_foo(k, r.v, w.v))

\* the loop of EvalOperand at the binary operator binop[k] (k = 0: none)
BinopAt(s, i, r, prio, e, k) ==
  IF k = 0
  THEN EvalExit("Syntax error: binary operator expected", i, e)
  ELSE IF LeaveToCaller(binop[k].prio, prio)
  THEN [r EXCEPT !.p = i, !.e = e]
  ELSE BinopRight(s, r, prio, k,
                  EvalOperand(s, i + Len(binop[k].op), binop[k].prio, e))

\* The unary operators call EvalOperand(p+1, v, 12) with v pointing to the
\* caller's r, which is preset to UNDEF: a value not stored leaves UNDEF.
UnaryArg(s, i, e) ==
  LET a == EvalOperand(s, i + 1, 12, e)
  IN  IF a.set \/ a.err # "" THEN a ELSE [a EXCEPT !.v = UNDEF, !.set = TRUE]

\* char *op_par(char *p, int *v)
op_par(s, i, e) ==
  LET c == IF At(s, i) = "[" THEN "]" ELSE ")"
      a == LET b == EvalOperand(s, i + 1, 0, e)
           IN  IF b.set \/ b.err # "" THEN b
               ELSE [b EXCEPT !.v = UNDEF, !.set = TRUE]
      q == SkipSpace(s, a.p)
  IN  IF a.err # "" THEN a
      ELSE IF At(s, q) # c THEN EvalExit("Missing closing", q, a.e)
      ELSE [a EXCEPT !.p = q + 1]

op_plu(s, i, e) == UnaryArg(s, i, e)
op_min(s, i, e) == [UnaryArg(s, i, e) EXCEPT !.v = -@]
op_lno(s, i, e) == [UnaryArg(s, i, e) EXCEPT !.v = Bool(@ = 0)]
op_bno(s, i, e) == [UnaryArg(s, i, e) EXCEPT !.v = -@ - 1]
op_low(s, i, e) == [UnaryArg(s, i, e) EXCEPT !.e.ForcedMode = -1]
op_hig(s, i, e) == [UnaryArg(s, i, e) EXCEPT !.e.ForcedMode = 1]
op_prc(s, i, e) == EvalRes(e.pc, i + 1, e)
op_hex(s, i, e) == EvalHexValue(s, i + 1, e)
op_len(s, i, e) == EvalSym(s, i + 1, e, TRUE)

\* the operand part of EvalOperand: unary operator, constant or symbol.
\* Character, multi character and binary constants (' " %) are not part
\* of the operand texts of this model.
EvalLeft(s, i, e) ==
  LET c == At(s, i)
  IN  CASE c = "<" -> op_low(s, i, e)
        [] c = ">" -> op_hig(s, i, e)
        [] c \in {"[", "("} -> op_par(s, i, e)
        [] c = "+" -> op_plu(s, i, e)
        [] c = "-" -> op_min(s, i, e)
        [] c = "!" -> op_lno(s, i, e)
        [] c = "~" -> op_bno(s, i, e)
        [] c = "*" -> op_prc(s, i, e)
        [] c = "$" -> op_hex(s, i, e)
        [] c = "?" -> op_len(s, i, e)
        [] isdigit(c) -> EvalDecValue(s, i, e)
        [] isym(c) /\ ~isdigit(c) /\ c # "$" -> EvalSym(s, i, e, FALSE)
        [] OTHER -> EvalExit("Illegal operand", i, e)

\* char *EvalOperand(char *p, int *v, int prio)
EvalOperand(s, i, prio, e) ==
  LET p == SkipSpace(s, i)
  IN  IF At(s, p) = ","
      THEN [EvalExit("", p, e) EXCEPT !.v = UNDEF]
      ELSE LET Left(l) ==
                 IF l.err # "" THEN l
                 ELSE EvalBinops(s, SkipSpace(s, l.p), [l EXCEPT !.set = TRUE],
                                 prio, l.e)
           IN  Left(EvalLeft(s, p, e))

\* the while loop of EvalOperand: p is at i, r is the left operand
EvalBinops(s, i, r, prio, e) ==
  IF At(s, i) \notin {"*", "/", "+", "-", "<", ">", "=", "!", "&", "^", "|"}
  THEN [r EXCEPT !.p = i, !.e = e]
  ELSE BinopAt(s, i, r, prio, e, MatchBinop(s, i))

-----------------------------------------------------------------------------
(* The ROM image and the S-record writer.  ROM is a function on the        *)
(* addresses that have been set; the array is 0 everywhere else.           *)

ROMat(rom, a) == IF a \in DOMAIN rom THEN rom[a] ELSE 0

HexChars == <<"0", "1", "2", "3", "4", "5", "6", "7", "8", "9",
              "A", "B", "C", "D", "E", "F">>

\* the hex digits of v >= 0, most significant first
RECURSIVE HexDigits(_)
HexDigits(v) ==
  IF v < 16 THEN <<HexChars[v + 1]>>
  ELSE HexDigits(v \div 16) \o <<HexChars[(v % 16) + 1]>>

\* fprintf("%0wX", v): at least w digits, never fewer than the value needs
FormatX(v, w) ==
  LET d == HexDigits(v)
  IN  IF Len(d) >= w THEN d ELSE [k \in 1..(w - Len(d)) |-> "0"] \o d

RECURSIVE FormatBytes(_)
FormatBytes(Data) ==
  IF Data = <<>> THEN <<>>
  ELSE FormatX(Head(Data), 2) \o FormatBytes(Tail(Data))

RECURSIVE SumBytes(_)
SumBytes(Data) == IF Data = <<>> THEN 0 ELSE Head(Data) + SumBytes(Tail(Data))

\* a variant of WriteS19Line whose checksum leaves out the high address byte
WriteS19Line_lowOnly(RecordType, PayloadSize, Address, Data) ==
  LET Checksum == PayloadSize + 3 + (Address % 256) + SumBytes(Data)
  IN  RecordType \o FormatX(PayloadSize + 3, 2) \o FormatX(Address, 4)
        \o FormatBytes(Data) \o FormatX(255 - (Checksum % 256), 2)
        \o <<"\r", "\n">>

\* void WriteS19Line(FILE *bf, const char *RecordType, int PayloadSize,
\*                   int Address, unsigned char *Data): the line written
WriteS19Line(RecordType, PayloadSize, Address, Data) ==
  LET Checksum == PayloadSize + 3 + (Address % 256) + (Address \div 256)
                    + SumBytes(Data)
  IN  RecordType \o FormatX(PayloadSize + 3, 2) \o FormatX(Address, 4)
        \o FormatBytes(Data) \o FormatX(255 - (Checksum % 256), 2)
        \o <<"\r", "\n">>

\* "Bit Shift Assembler"
S0Header == <<66, 105, 116, 32, 83, 104, 105, 102, 116, 32,
              65, 115, 115, 101, 109, 98, 108, 101, 114>>

\* the PayloadSize bytes at &ROM[Addr]
ROMBytes(rom, Addr, n) == [k \in 1..n |-> ROMat(rom, Addr + k - 1)]

\* the while loop of WriteS19Format: the S1 lines
RECURSIVE S1Lines(_, _, _, _)
S1Lines(rom, UnwrittenBytes, Addr, BytesInThisLine) ==
  IF UnwrittenBytes > 0
  THEN <<WriteS19Line(<<"S", "1">>, BytesInThisLine, Addr,
                      ROMBytes(rom, Addr, BytesInThisLine))>>
       \o S1Lines(rom, UnwrittenBytes - BytesInThisLine,
                  Addr + BytesInThisLine, BytesInThisLine)
  ELSE <<>>

\* void WriteS19Format(int i): the lines of the file, and SFR[i]
WriteS19Format(rom, rq) ==
  LET BytesInThisLine == IF rq.SFL < 32 THEN rq.SFL ELSE 32
      s1  == S1Lines(rom, rq.SFL, rq.SFA, BytesInThisLine)
      SFR == Len(s1)
  IN  [lines |-> <<WriteS19Line(<<"S", "0">>, Len(S0Header), 0, S0Header)>>
                 \o s1
                 \o <<WriteS19Line(<<"S", "5">>, 0, SFR, <<>>)>>
                 \o (IF rq.SFE > -1
                     THEN <<WriteS19Line(<<"S", "9">>, 0, rq.SFE, <<>>)>>
                     ELSE <<>>),
       SFR |-> SFR]

\* void WriteBinaryFormat(int i): the bytes of the file
WriteBinaryFormat(rom, rq) ==
  (IF rq.SFE > -1 THEN <<rq.SFA \div 256, rq.SFA % 256>> ELSE <<>>)
    \o ROMBytes(rom, rq.SFA, rq.SFL)

-----------------------------------------------------------------------------
(* Specification SpecExpr: EvalOperand applied to bounded operand texts.   *)
(* A text is built from a shape: a family, operands, binary operators      *)
(* (indices into binop) and a unary operator.                              *)

\* the evaluation state of the expression runs: the symbol D is defined
\* (a label at address 5), every other symbol is unknown; pc is 4096
ExprEnv ==
  [lab |-> (<<"D">> :> [NewLabel EXCEPT !.Address = 5]),
   ForcedMode |-> 0, pc |-> 4096, Scope |-> <<>>, DimOp |-> DIMOP_6309]

\* the largest number of binary operators in a chain a op b op c ...
NumOps == 2

Numerals == {<<"0">>, <<"1">>, <<"3">>}
UnaryOps == {"+", "-", "!", "~"}
\* operands of the texts around an undefined symbol: a numeral or D
Defined  == Numerals \cup {<<"D">>}

Shape(fam, opnds, ops, un) ==
  [fam |-> fam, opnds |-> opnds, ops |-> ops, un |-> un]

Tuples(S, n) == [1..n -> S]

\* the shapes of the texts
IsShape(sh) ==
  \* a op b op c ...
  \/ \E n \in 1..NumOps :
       \E a \in Tuples(Numerals, n + 1), o \in Tuples(1..BINOPS, n) :
         sh = Shape("chain", a, o, "")
  \* u a op b  and  a op u b
  \/ \E f \in {"unaryL", "unaryR"}, u \in UnaryOps :
       \E a \in Tuples(Numerals, 2), o \in Tuples(1..BINOPS, 1) :
         sh = Shape(f, a, o, u)
  \* (a op b) op c  and  a op (b op c)
  \/ \E f \in {"parL", "parR"} :
       \E a \in Tuples(Numerals, 3), o \in Tuples(1..BINOPS, 2) :
         sh = Shape(f, a, o, "")
  \* U op a  and  a op U, U an undefined symbol
  \/ \E f \in {"undefL", "undefR"} :
       \E a \in Defined, o \in Tuples(1..BINOPS, 1) :
         sh = Shape(f, <<a>>, o, "")
  \* u U
  \/ \E u \in UnaryOps \cup {"<", ">", "?"} :
       sh = Shape("undefU", <<>>, <<>>, u)

RECURSIVE Chain(_, _, _)
Chain(a, o, k) ==
  IF k > Len(o) THEN a[k] ELSE a[k] \o binop[o[k]].op \o Chain(a, o, k + 1)

TextOf(sh) ==
  LET a == sh.opnds
      o == sh.ops
      B(k) == binop[o[k]].op
  IN  CASE sh.fam = "chain"  -> Chain(a, o, 1)
        [] sh.fam = "unaryL" -> <<sh.un>> \o a[1] \o B(1) \o a[2]
        [] sh.fam = "unaryR" -> a[1] \o B(1) \o <<sh.un>> \o a[2]
        [] sh.fam = "parL"   -> <<"(">> \o a[1] \o B(1) \o a[2] \o <<")">>
                                \o B(2) \o a[3]
        [] sh.fam = "parR"   -> a[1] \o B(1) \o <<"(">> \o a[2] \o B(2) \o a[3]
                                \o <<")">>
        [] sh.fam = "undefL" -> <<"U">> \o B(1) \o a[1]
        [] sh.fam = "undefR" -> a[1] \o B(1) \o <<"U">>
        [] OTHER             -> <<sh.un, "U">>

InitExpr ==
  /\ IsShape(shape)
  /\ OpText = TextOf(shape)
  /\ val = EvalExit("", 1, ExprEnv)
  /\ at = "text"
  /\ ROM = <<>> /\ SF = <<>> /\ files = <<>>
  /\ Statics

Evaluate ==
  /\ at = "text"
  /\ val' = EvalOperand(OpText, 1, 0, ExprEnv)
  /\ at' = "value"
  /\ UNCHANGED <<shape, OpText, ROM, SF, files>>
  /\ UNCHANGED asmVars

NextExpr == Evaluate

SpecExpr == InitExpr /\ [][NextExpr]_vars

-----------------------------------------------------------------------------
(* Claims on the expression evaluator (specification SpecExpr).            *)

\* The value of a shape by the rules of the operator table, computed from
\* the shape and not from the text: [v, ub, undef], undef when a division
\* by zero occurs in it.
RefVal(x) == [v |-> x, ub |-> FALSE, undef |-> FALSE]

NumeralVal(a) == IF a = <<"D">> THEN ExprEnv.lab[a].Address ELSE DecValue(a)

RefApply(k, l, r) ==
  IF l.undef \/ r.undef \/ (binop[k].op = <<"/">> /\ r.v = 0)
  THEN [v |-> UNDEF, ub |-> l.ub \/ r.ub, undef |-> TRUE]
  ELSE IF l.ub \/ r.ub THEN [v |-> 0, ub |-> TRUE, undef |-> FALSE]
  ELSE [v |-> binop_foo(k, l.v, r.v).v, ub |-> binop_foo(k, l.v, r.v).ub,
        undef |-> FALSE]

RefUnary(u, x) ==
  CASE u = "-" -> [x EXCEPT !.v = 0 - @]
    [] u = "!" -> [x EXCEPT !.v = IF @ = 0 THEN 1 ELSE 0]
    [] u = "~" -> [x EXCEPT !.v = (0 - @) - 1]
    [] OTHER   -> x

\* a chain is split at its last operator of lowest priority: operators of
\* higher priority bind tighter, equal priorities group from the left
RECURSIVE RefChain(_, _)
RefChain(a, o) ==
  IF o = <<>> THEN RefVal(NumeralVal(a[1]))
  ELSE LET low == CHOOSE m \in 1..Len(o) :
                    /\ \A j \in 1..Len(o) : binop[o[m]].prio <= binop[o[j]].prio
                    /\ \A j \in (m + 1)..Len(o) :
                         binop[o[m]].prio < binop[o[j]].prio
       IN  RefApply(o[low],
                    RefChain(SubSeq(a, 1, low), SubSeq(o, 1, low - 1)),
                    RefChain(SubSeq(a, low + 1, Len(a)),
                             SubSeq(o, low + 1, Len(o))))

RefShape(sh) ==
  LET a == sh.opnds
      o == sh.ops
      N(k) == RefVal(NumeralVal(a[k]))
  IN  CASE sh.fam = "chain"  -> RefChain(a, o)
        [] sh.fam = "unaryL" -> RefApply(o[1], RefUnary(sh.un, N(1)), N(2))
        [] sh.fam = "unaryR" -> RefApply(o[1], N(1), RefUnary(sh.un, N(2)))
        [] sh.fam = "parL"   -> RefApply(o[2], RefApply(o[1], N(1), N(2)), N(3))
        [] OTHER             -> RefApply(o[1], N(1), RefApply(o[2], N(2), N(3)))

DefinedFamilies == {"chain", "unaryL", "unaryR", "parL", "parR"}
Comparisons == { <<"<", "=">>, <<"<">>, <<">", "=">>, <<">">>,
                 <<"=", "=">>, <<"!", "=">> }

\* C6: every binary operator with an UNDEF operand (left or right) and every
\* unary operator other than ?name applied to UNDEF yields UNDEF.
\* (The texts are U op a, a op U and u U with U an undefined symbol.)
C6_UndefPropagates ==
  (at = "value" /\ shape.fam \in {"undefL", "undefR", "undefU"}
     /\ shape.un # "?")
    => (val.err = "" /\ ~val.ub /\ val.v = UNDEF)

\* C7: on every text of defined operands EvalOperand consumes the whole
\* text and returns the value given by the table's priorities, left to
\* right among equal priorities, unary operators binding tighter than any
\* binary operator; a comparison yields 0 or 1; a division by zero yields
\* UNDEF.
C7_Precedence ==
  (at = "value" /\ shape.fam \in DefinedFamilies)
    => LET ref == RefShape(shape)
       IN  /\ val.err = ""
           /\ val.p = Len(OpText) + 1
           /\ ~ref.undef => (val.ub = ref.ub /\ (~ref.ub => val.v = ref.v))
           /\ (shape.fam = "chain" /\ Len(shape.ops) = 1)
                => /\ binop[shape.ops[1]].op \in Comparisons => val.v \in {0, 1}
                   /\ (binop[shape.ops[1]].op = <<"/">> /\ shape.opnds[2] = <<"0">>)
                        => val.v = UNDEF

\* C7 witness: 3-1-1 evaluated to 1, 1+3*3 to 10, -3+1 to -2, 3/0 to UNDEF
C7_Witness ==
  /\ at = "value"
  /\ \/ OpText = <<"3", "-", "1", "-", "1">> /\ val.v = 1
     \/ OpText = <<"1", "+", "3", "*", "3">> /\ val.v = 10
     \/ OpText = <<"-", "3", "+", "1">> /\ val.v = -2
     \/ OpText = <<"3", "/", "0">> /\ val.v = UNDEF

-----------------------------------------------------------------------------
(* Specification SpecS19: WriteS19Format applied to one registered STORE   *)
(* request of type SRECORD over a filled ROM image.  The stored range lies *)
(* within the 64K image (SFA + SFL <= 65536), so that every record address *)
(* fits the two address bytes of an S1 record.                             *)

\* the largest length of the stored range
MaxSFL == 40

\* ROM contents: every byte of the image around the stored range is set
Pattern(seed) == [a \in 0..70 \cup 65500..65620 |-> (a * 7 + seed) % 256]

InitS19 ==
  /\ \E seed \in {1, 100} : ROM = Pattern(seed)
  /\ \E s \in {0, 3, 65496}, n \in 0..MaxSFL, x \in {-1, 3} :
       /\ s + n <= 65536
       /\ SF = <<[SFA |-> s, SFL |-> n, SFE |-> x, SFT |-> "SRECORD", SFR |-> 0]>>
  /\ files = <<>>
  /\ at = "store"
  /\ shape = "" /\ OpText = <<>> /\ val = EvalExit("", 1, ExprEnv)
  /\ Statics

WriteS19 ==
  /\ at = "store"
  /\ files' = <<WriteS19Format(ROM, SF[1]).lines>>
  /\ SF' = [SF EXCEPT ![1].SFR = WriteS19Format(ROM, SF[1]).SFR]
  /\ at' = "stored"
  /\ UNCHANGED <<shape, OpText, val, ROM>>
  /\ UNCHANGED asmVars

NextS19 == WriteS19

SpecS19 == InitS19 /\ [][NextS19]_vars

\* reading a line back as an S-record: the characters between the type and
\* the line end, as bytes (two hex digits each)
HexPart(line) == SubSeq(line, 3, Len(line) - 2)

WholeBytes(line) ==
  /\ Len(line) >= 4
  /\ Len(HexPart(line)) % 2 = 0
  /\ \A k \in 1..Len(HexPart(line)) : Nib2Byte(HexPart(line)[k]) >= 0

RecordBytes(line) ==
  [k \in 1..(Len(HexPart(line)) \div 2) |->
     16 * Nib2Byte(HexPart(line)[2 * k - 1]) + Nib2Byte(HexPart(line)[2 * k])]

\* the bytes between the two address bytes and the checksum byte
RecordData(line) == SubSeq(RecordBytes(line), 4, Len(RecordBytes(line)) - 1)

RecordType(line) == SubSeq(line, 1, 2)

S1Records(f) == SelectSeq(f, LAMBDA line : RecordType(line) = <<"S", "1">>)

RECURSIVE Concat(_)
Concat(ss) == IF ss = <<>> THEN <<>> ELSE Head(ss) \o Concat(Tail(ss))

C9_S1Coverage ==
  at = "stored" =>
    LET s1 == S1Records(files[1])
        s5 == SelectSeq(files[1], LAMBDA line : RecordType(line) = <<"S", "5">>)
    IN  /\ \A k \in 1..Len(s1) : Len(RecordData(s1[k])) <= 32
        /\ Concat([k \in 1..Len(s1) |-> RecordData(s1[k])])
             = ROMBytes(ROM, SF[1].SFA, SF[1].SFL)
        /\ Len(s5) = 1
        /\ 256 * RecordBytes(s5[1])[2] + RecordBytes(s5[1])[3] = Len(s1)

-----------------------------------------------------------------------------
(* The assembler.  A machine m is the record of the globals of bs9.c that  *)
(* the modelled source lines read or write.  Besides the globals that are  *)
(* the variables of this module it holds the globals that every line sets  *)
(* before it reads them (oc, ql, il, pb, nops, ForcedMode), the local      *)
(* v of GenerateCode, and puts, the number of bytes Put stored since the   *)
(* instruction began.  An operation maps a machine to a machine; after an  *)
(* exit(1) the field fatal holds the message and nothing more is done.     *)

Exit(m, text) == [m EXCEPT !.fatal = text]

\* f; g in C: g is not reached after an exit
Then(m, G(_)) == IF m.fatal # "" THEN m ELSE G(m)

ADLat(adl, a) == IF a \in DOMAIN adl THEN adl[a] ELSE 0

Store(f, a, b) == [x \in DOMAIN f \cup {a} |-> IF x = a THEN b ELSE f[x]]

\* the history of the values stored at address a
Note(w, a, b) == Store(w, a, (IF a \in DOMAIN w THEN w[a] ELSE {}) \cup {b})

\* void Put(int i, int v, char *p)
Put(m, i, v) ==
  LET b == v % 256
  IN  IF i \in m.LOCK /\ ROMat(m.ROM, i) # b
      THEN Exit([m EXCEPT !.ErrNum = @ + 1], "Tried to overwrite address")
      ELSE [m EXCEPT !.ROM = Store(m.ROM, i, b), !.LOCK = @ \cup {i},
                     !.written = Note(m.written, i, b), !.puts = @ + 1,
                     !.ub = @ \/ i \notin 0..65791]

\* void SetInstructionLength(char *p)
SetInstructionLength(m) ==
  LET a == IF m.oc < 0 THEN m
           ELSE IF m.oc < 256 THEN Put(m, m.pc, m.oc)
           ELSE Then(Put(m, m.pc, m.oc \div 256),
                    LAMBDA x : Put(x, m.pc + 1, m.oc % 256))
      tail(x) == (x.pc + 1)..(x.pc + x.il - 1)
      lock(x) ==
        IF x.pc >= 0 /\ x.pc < 65536
        THEN IF ADLat(x.ADL, x.pc) # 0 /\ ADLat(x.ADL, x.pc) # x.il
             THEN Exit(x, "Phase error")
             ELSE [x EXCEPT !.ADL =
                     [k \in DOMAIN x.ADL \cup {x.pc} \cup tail(x) |->
                        IF k = x.pc THEN x.il
                        ELSE IF k \in tail(x) THEN -1 ELSE x.ADL[k]]]
        ELSE x
  IN  Then(a, lock)

\* a Synchronize that asks for no padding
Synchronize_nopad(m) == [m EXCEPT !.nops = 0, !.il = ADLat(m.ADL, m.pc)]

\* void Synchronize(void)
Synchronize(m) ==
  LET n == ADLat(m.ADL, m.pc) - m.il
  IN  [m EXCEPT !.nops = n, !.il = ADLat(m.ADL, m.pc),
                !.LOCK = IF n # 0 THEN @ \ {m.pc} ELSE @]


-----------------------------------------------------------------------------
(* Scanning a source line.  A line is a sequence of characters; an index   *)
(* past its end reads "", the terminating NUL.                             *)

\* StrNCaseCmp(p, w, strlen(w)) == 0: w is at index i, in any case
PrefixCI(s, i, w) == \A k \in 1..Len(w) : toupper(At(s, i + k - 1)) = toupper(w[k])

\* int strcmpword(const char *s1, const char *s2) == 0
strcmpword(s, i, w) == PrefixCI(s, i, w) /\ ~isym(At(s, i + Len(w)))

\* char *StrMatch(char *s, const char *m) != NULL, for s the text from i on
StrMatch(s, i, w) == \E j \in i..(Len(s) - Len(w) + 1) : PrefixCI(s, j, w)

\* char *NeedChar(char *p, char c): the index of c, or 0 for NULL
NeedChar(s, i, c) == IF At(s, SkipSpace(s, i)) = c THEN SkipSpace(s, i) ELSE 0

\* char *SkipToComma(char *p)
RECURSIVE SkipToComma(_, _)
SkipToComma(s, i) ==
  IF At(s, i) \in {"", ",", ";"} THEN i ELSE SkipToComma(s, i + 1)

\* char *SkipHexCode(char *p), without the switch -x
SkipHexCode(s) ==
  IF /\ Len(s) > 20 /\ isdigit(At(s, 5)) /\ At(s, 6) = " "
     /\ \A k \in 7..10 : isxdigit(At(s, k))
     /\ At(s, 1) # ";"
  THEN 21 ELSE 1

\* int IsInstruction(char *p): the index into Mat, or 0 for no mnemonic
IsInstruction(s, i, d) ==
  LET hit(k) == PrefixCI(s, i, Mat[k].Mne) /\ ~isym(At(s, i + Len(Mat[k].Mne)))
  IN  IF \E k \in InUse(d) : hit(k)
      THEN CHOOSE k \in InUse(d) : hit(k) /\ \A j \in InUse(d) : j < k => ~hit(j)
      ELSE 0

\* the loop of ExtractOpText that copies the operand: the index where it
\* stops, at the end of the line or at a ; outside quotes and apostrophes
RECURSIVE OperandEnd(_, _, _, _)
OperandEnd(s, i, inquo, inapo) ==
  LET c  == At(s, i)
      q  == IF c = "\"" /\ ~inapo THEN ~inquo ELSE inquo
      a  == IF c = "'" /\ ~q THEN ~inapo ELSE inapo
  IN  IF c = "" THEN i
      ELSE IF c = ";" /\ ~q /\ ~a THEN i
      ELSE OperandEnd(s, i + 1, q, a)

RECURSIVE TrimRight(_)
TrimRight(t) ==
  IF t # <<>> /\ t[Len(t)] = " " THEN TrimRight(SubSeq(t, 1, Len(t) - 1)) ELSE t

\* char *ExtractOpText(char *p): OpText, ForcedMode and the returned pointer
ExtractOpText(s, i) ==
  LET p == SkipSpace(s, i)
      f == IF At(s, p) = "<" THEN -1 ELSE IF At(s, p) = ">" THEN 1 ELSE 0
      b == IF f # 0 THEN p + 1 ELSE p
      e == OperandEnd(s, b, FALSE, FALSE)
  IN  IF At(s, p) = ""
      THEN [OpText |-> <<>>, ForcedMode |-> 0, p |-> p]
      ELSE [OpText |-> TrimRight(Slice(s, b, e)), ForcedMode |-> f, p |-> e]

\* the evaluation state of EvalOperand for machine m
Env(m) == [lab |-> m.lab, ForcedMode |-> m.ForcedMode, pc |-> m.pc,
           Scope |-> <<>>, DimOp |-> m.DimOp]

\* the machine after an evaluation with result r
Evaluated(m, r) ==
  [m EXCEPT !.lab = r.e.lab, !.ForcedMode = r.e.ForcedMode,
            !.ub = @ \/ r.ub, !.fatal = r.err]

\* char *ExtractValue(char *p, int *v): the machine, the value stored
\* through v (old: the value v had), and whether v was assigned
ExtractValue(m, s, i, old) ==
  LET x  == ExtractOpText(s, i)
      m1 == [m EXCEPT !.ForcedMode = x.ForcedMode]
      Value(r) ==
        IF r.err # ""
        THEN [m |-> Evaluated(m1, r), v |-> old, set |-> FALSE]
        ELSE IF At(x.OpText, r.p) # ""
        THEN [m |-> Exit(Evaluated(m1, r), "Extra text after operand"),
              v |-> old, set |-> FALSE]
        ELSE [m |-> Evaluated(m1, r), v |-> IF r.set THEN r.v ELSE old,
              set |-> r.set]
  IN  IF x.OpText = <<>>
      THEN [m |-> Exit(m1, "Empty operand"), v |-> old, set |-> FALSE]
      ELSE Value(EvalOperand(x.OpText, 1, 0, Env(m1)))

\* char *ps_org(char *p)
ps_org(m, s, i) ==
  LET Set(x) == [x.m EXCEPT !.pc = x.v]
  IN  Set(ExtractValue(m, s, i, m.pc))


-----------------------------------------------------------------------------
(* Labels and conditional assembly *)

\* struct LabelDefStruct LabDef[LABTYPES]
LabDef == << [Name |-> <<"=">>,             Length |-> 1, Type |-> 0],
             [Name |-> <<"E","Q","U">>,     Length |-> 3, Type |-> 0],
             [Name |-> <<"S","E","T">>,     Length |-> 3, Type |-> -1],
             [Name |-> <<"E","N","U","M">>, Length |-> 4, Type |-> 1] >>

LABTYPES == Len(LabDef)

\* the loop of DefineLabel over LabDef: the index it breaks at, or 0
LabDefIndex(s, p) ==
  LET hit(k) == At(s, p) = "=" \/ strcmpword(s, p, LabDef[k].Name)
  IN  IF \E k \in 1..LABTYPES : hit(k)
      THEN CHOOSE k \in 1..LABTYPES : hit(k) /\ \A j \in 1..(k - 1) : ~hit(j)
      ELSE 0

\* else if (lab[j].Address != pc && !lab[j].Locked)
PositionMismatch(l, a) == l.Address # a /\ ~l.Locked

\* the history of definitions by value: the label as it was (cur), the
\* value v of the operand and the machine m after the definition
LogAssign(cur, m, Label, k, v) ==
  [m EXCEPT !.asglog =
     Append(@, [Name |-> Label, Key |-> LabDef[k].Name, Phase |-> m.Phase,
                old |-> cur.Address, Locked |-> cur.Locked, v |-> v,
                new |-> m.lab[Label].Address, fatal |-> m.fatal])]

\* DefineLabel, the branch of a definition with = EQU SET ENUM (entry k)
DefineValue(m, s, p, Label, k, Locked) ==
  LET Type == LabDef[k].Type
      x    == ExtractOpText(s, p + LabDef[k].Length)
      m1   == [m EXCEPT !.lab = AddLabel(m.lab, Label),
                        !.ForcedMode = x.ForcedMode]
      nxt  == m.EnumValue + 1
      Assign(m2, cur, v) ==
        LogAssign(cur,
          IF cur.Address # UNDEF /\ Type # 0 /\ cur.Address # v /\ ~cur.Locked
          THEN Exit([m2 EXCEPT !.ErrNum = @ + 1],
                    "Multiple assignments for label")
          ELSE [m2 EXCEPT !.lab[Label].Address =
                            IF cur.Address = UNDEF \/ Type = 0 THEN v ELSE @,
                          !.lab[Label].Locked = @ \/ Locked,
                          !.EnumValue = IF Type > 0 THEN v ELSE @],
          Label, k, v)
      Value(m2, r) ==
        IF r.err # "" THEN m2
        ELSE IF At(x.OpText, r.p) # ""
        THEN Exit(m2, "Extra text after label assignment")
        ELSE Assign(m2, m2.lab[Label], r.v)
      Eval(r) ==
        Value([Evaluated(m1, r) EXCEPT !.ub = @ \/ (r.err = "" /\ ~r.set)], r)
  IN  IF x.OpText # <<>> THEN Eval(EvalOperand(x.OpText, 1, 0, Env(m1)))
      ELSE IF Type > 0
      THEN LogAssign(m1.lab[Label],
             IF m1.lab[Label].Address = UNDEF
             THEN [m1 EXCEPT !.EnumValue = nxt, !.lab[Label].Address = nxt]
             ELSE IF m1.lab[Label].Address # nxt
             THEN Exit([m1 EXCEPT !.EnumValue = nxt, !.ErrNum = @ + 1],
                       "ENUM phase error")
             ELSE [m1 EXCEPT !.EnumValue = nxt],
             Label, k, nxt)
      ELSE Exit([m1 EXCEPT !.ErrNum = @ + 1], "Missing operand")

\* DefineLabel, the branch of a definition by position
DefinePosition(m, Label) ==
  LET Def(m1, known, cur) ==
        IF ~known \/ cur.Address = UNDEF
        THEN [m1 EXCEPT !.lab = [AddLabel(m.lab, Label) EXCEPT
                                   ![Label].Address = m.pc]]
        ELSE IF PositionMismatch(cur, m.pc)
        THEN Exit([m1 EXCEPT !.ErrNum = @ + 1],
                  IF m.Phase = 1 THEN "Multiple label definition"
                                 ELSE "Phase error label")
        ELSE m1
      Log(known, cur) ==
        Def([m EXCEPT !.deflog =
               Append(@, [Name |-> Label, Phase |-> m.Phase, pc |-> m.pc,
                          Locked |-> cur.Locked])], known, cur)
  IN  Log(Label \in DOMAIN m.lab,
          IF Label \in DOMAIN m.lab THEN m.lab[Label] ELSE NewLabel)

\* DefineLabel, the branch of a label followed by BSS: x is the result of
\* ExtractValue(p+4,&v).  The local v is not initialised: bss += v reads
\* it undefined when EvalOperand did not assign it
BindBSS(x, Label) ==
  LET m1  == [x.m EXCEPT !.lab = AddLabel(@, Label), !.ub = @ \/ ~x.set]
      cur == m1.lab[Label].Address
  IN  IF x.m.fatal # "" THEN x.m
      ELSE IF cur >= UNDEF
      THEN [m1 EXCEPT !.lab[Label].Address = m1.bss, !.bss = @ + x.v]
      ELSE IF cur # m1.bss
      THEN Exit([m1 EXCEPT !.ErrNum = @ + 1],
                "Multiple assignments for BSS label")
      ELSE [m1 EXCEPT !.bss = @ + x.v]

\* char *DefineLabel(char *p, int *val, int Locked): the machine and the
\* returned pointer
DefineLabel(m, s, i, Locked) ==
  LET g == GetSymbol(s, i, <<>>)
      p == SkipSpace(s, IF At(s, g.p) = ":" THEN g.p + 1 ELSE g.p)
      k == LabDefIndex(s, p)
  IN  IF k > 0
      THEN [m |-> DefineValue(m, s, p, g.Sym, k, Locked),
            p |-> IF ExtractOpText(s, p + LabDef[k].Length).OpText # <<>>
                  THEN Len(s) + 1 ELSE p + LabDef[k].Length]
      ELSE IF strcmpword(s, p, <<"B", "S", "S">>)
      THEN [m |-> BindBSS(ExtractValue(m, s, p + 4, 0), g.Sym),
            p |-> Len(s) + 1]
      ELSE [m |-> DefinePosition(m, g.Sym), p |-> p]

\* a CheckSkip that looks at the innermost open level only
CheckSkip_innermost(m) ==
  [m EXCEPT !.Skipping = m.IfLevel > 0 /\ m.SkipLine[m.IfLevel]]

\* void CheckSkip(void)
CheckSkip(m) ==
  [m EXCEPT !.Skipping = \E i \in 1..m.IfLevel : m.SkipLine[i]]

\* CheckCondition, the part for ifdef, ifndef and if: the operand starts
\* n characters after p, Cond(v) is the value stored in SkipLine
OpenCondition(m, s, p, n) ==
  LET m1 == [m EXCEPT !.IfLevel = @ + 1]
      Cond(v) == CASE n = 6 -> v = UNDEF
                   [] n = 7 -> v # UNDEF
                   [] OTHER -> v = UNDEF \/ v = 0
      Open(m2, r) ==
        IF r.err # "" THEN [m |-> m2, p |-> p]
        ELSE [m |-> CheckSkip([m2 EXCEPT !.SkipLine[m2.IfLevel] = Cond(r.v)]),
              p |-> r.p]
      Eval(r) ==
        Open([Evaluated(m1, r) EXCEPT !.ub = @ \/ (r.err = "" /\ ~r.set)], r)
  IN  IF m1.IfLevel > 9
      THEN [m |-> Exit([m1 EXCEPT !.ErrNum = @ + 1],
                       "More than 10  IF or IFDEF conditions nested"),
            p |-> p]
      ELSE Eval(EvalOperand(s, p + n, 0, Env(m1)))

\* int CheckCondition(char *p): the machine and the result r
CheckCondition(m, s, i) ==
  LET p      == IF At(s, i) = "#" THEN i + 1 ELSE i
      err    == strcmpword(s, p, <<"e","r","r","o","r">>) /\ m.Phase = 1
      Ifdef  == strcmpword(s, p, <<"i","f","d","e","f">>)
      Ifndef == strcmpword(s, p, <<"i","f","n","d","e","f">>)
      Ifval  == strcmpword(s, p, <<"i","f">>)
      else   == strcmpword(s, p, <<"e","l","s","e">>)
      Close(x, endif) ==
        IF x.fatal # "" THEN [m |-> x, r |-> TRUE]
        ELSE [m |-> IF ~endif THEN x
                    ELSE IF x.IfLevel - 1 < 0
                    THEN Exit([x EXCEPT !.IfLevel = @ - 1, !.ErrNum = @ + 1],
                              "endif without if")
                    ELSE CheckSkip([x EXCEPT !.IfLevel = @ - 1]),
              r |-> Ifdef \/ Ifndef \/ Ifval \/ else \/ endif]
      Opened(a) == Close(a.m, strcmpword(s, a.p, <<"e","n","d","i","f">>))
      Error(x) ==
        IF x.Skipping THEN [m |-> x, r |-> FALSE]
        ELSE [m |-> Exit(x, "#error"), r |-> TRUE]
  IN  IF err THEN Error(CheckSkip(m))
      ELSE Opened(IF Ifdef \/ Ifndef \/ Ifval
                  THEN OpenCondition(m, s, p, IF Ifdef THEN 6
                                              ELSE IF Ifndef THEN 7 ELSE 3)
                  ELSE IF else
                  THEN [m |-> CheckSkip([m EXCEPT !.SkipLine[m.IfLevel] = ~@]),
                        p |-> p]
                  ELSE [m |-> m, p |-> p])

-----------------------------------------------------------------------------
(* The pseudo ops BYTE, END, LOAD, ORG and STORE *)

\* the two or one bytes that ParseByteData stores for the value v
ByteDataOf(v) ==
  (IF v > 255 \/ v < -127 THEN <<(v \div 256) % 256>> ELSE <<>>) \o <<v % 256>>

\* the while loop of ParseByteData on expressions (strings and $DATE are
\* not among the modelled lines): the machine and the ByteBuffer
RECURSIVE ByteItems(_, _, _, _)
ByteItems(m, s, i, buf) ==
  LET Rest(m1, v, q) ==
        ByteItems(m1, s, IF At(s, q) = "," THEN q + 1 ELSE q,
                  buf \o ByteDataOf(v))
      Item(m1, r, v) ==
        IF r.err # "" THEN [m |-> m1, buf |-> buf]
        ELSE IF v = UNDEF /\ m.Phase = 2
        THEN [m |-> Exit(m1, "Undefined symbol in BYTE data"), buf |-> buf]
        ELSE Rest(m1, v, SkipToComma(s, r.p))
      Eval(r) == Item(Evaluated(m, r), r, IF r.set THEN r.v ELSE UNDEF)
  IN  IF At(s, i) \in {"", ";"} THEN [m |-> m, buf |-> buf]
      ELSE Eval(EvalOperand(s, SkipSpace(s, i), 0, Env(m)))

RECURSIVE PutAll(_, _, _)
PutAll(m, a, bytes) ==
  IF bytes = <<>> \/ m.fatal # "" THEN m
  ELSE PutAll(Put(m, a, Head(bytes)), a + 1, Tail(bytes))

\* char *ParseByteData(char *p)
ParseByteData(m, s, i) ==
  LET Sized(x, l) ==
        [x EXCEPT !.lab = [n \in DOMAIN @ |->
                             IF @[n].Address = x.pc
                             THEN [@[n] EXCEPT !.Bytes = l] ELSE @[n]]]
      Emit(x, buf) ==
        Then(IF x.Phase = 2 THEN PutAll(x, x.pc, buf) ELSE x,
             LAMBDA y : [y EXCEPT !.pc = @ + Len(buf)])
      Items(b) ==
        IF b.m.fatal # "" THEN b.m
        ELSE IF Len(b.buf) < 1 THEN Exit(b.m, "Missing byte data")
        ELSE Emit(Sized(b.m, Len(b.buf)), b.buf)
  IN  Items(ByteItems(m, s, SkipSpace(s, i), <<>>))

\* the files that LOAD can open
LoadFiles == [n \in {<<"f">>} |-> <<1, 2>>]

\* the index of the closing quote of a file name, or of the end of the line
RECURSIVE QuoteEnd(_, _)
QuoteEnd(s, i) == IF At(s, i) \in {"", "\""} THEN i ELSE QuoteEnd(s, i + 1)

\* fread(ROM+Start,Size,1,lp)
RECURSIVE ReadInto(_, _, _)
ReadInto(m, a, bytes) ==
  IF bytes = <<>> THEN m
  ELSE ReadInto([m EXCEPT !.ROM = Store(m.ROM, a, Head(bytes)),
                          !.written = Note(m.written, a, Head(bytes))],
                a + 1, Tail(bytes))

\* char *ParseLoadData(char *p)
ParseLoadData(m, s, i) ==
  LET Read(m1, quoted, Start, bytes, area) ==
        IF Start + Len(bytes) > 65536
        THEN Exit(m1, "LOADING violates 64K size")
        ELSE IF m1.Phase = 2 /\ area \cap m1.LOCK # {}
        THEN Exit(m1, "LOAD would overwrite defined values")
        ELSE [ReadInto(IF m1.Phase = 2 THEN [m1 EXCEPT !.LOCK = @ \cup area]
                       ELSE m1, Start, bytes)
                EXCEPT !.ub = @ \/ Start < 0,
                       !.pc = IF quoted THEN @ + Len(bytes) ELSE @]
      Sized(m1, quoted, Start, bytes) ==
        Read(m1, quoted, Start, bytes, Start..(Start + Len(bytes) - 1))
      Open(m1, quoted, Start, Filename) ==
        IF Filename \notin DOMAIN LoadFiles THEN Exit(m1, "Could not LOAD")
        ELSE Sized(m1, quoted, Start, LoadFiles[Filename])
      Name(m1, quoted, Start, b) ==
        Open(m1, quoted, Start, Slice(s, b, QuoteEnd(s, b)))
      Quote(m1, Start, q) ==
        IF q = 0 THEN Exit(m1, "Missing quote for filename")
        ELSE Name(m1, FALSE, Start, q + 1)
      Comma(m1, Start, c) ==
        IF c = 0 THEN Exit(m1, "Missing ',' after start address")
        ELSE Quote(m1, Start, NeedChar(s, c + 1, "\""))
      Addr(m1, r) ==
        IF r.err # "" THEN m1
        ELSE IF r.v < 0 \/ r.v > 65535
        THEN Exit(m1, "Illegal start address for LOAD")
        ELSE Comma(m1, r.v, NeedChar(s, r.p, ","))
      Eval(r) ==
        Addr([Evaluated(m, r) EXCEPT !.ub = @ \/ (r.err = "" /\ ~r.set)], r)
      From(p) ==
        IF At(s, p) = "\"" THEN Name(m, TRUE, m.pc, p + 1)
        ELSE Eval(EvalOperand(s, p, 0, Env(m)))
  IN  From(SkipSpace(s, i))


\* #define SFMAX 20
SFMAX == 20

\* ParseStoreData after the file name: the text from EndPtr on holds the
\* format and the entry address.  The machine and [FileFormat, Entry].
StoreFormat(m, s, EndPtr) ==
  LET c   == NeedChar(s, EndPtr, ",")
      fmt == IF StrMatch(s, c + 1, <<"B","I","N">>) THEN "BINARY"
             ELSE IF StrMatch(s, c + 1, <<"S","R","E","C">>) THEN "SRECORD"
             ELSE IF StrMatch(s, c + 1, <<"S","1","9">>) THEN "SRECORD"
             ELSE ""
      Entry(r) ==
        IF r.err # "" THEN [m |-> Evaluated(m, r), SFT |-> fmt, SFE |-> -1]
        ELSE IF r.v < 0 \/ r.v > 65535
        THEN [m |-> Exit([Evaluated(m, r) EXCEPT !.ub = @ \/ ~r.set],
                         "Illegal execution start address for STORE"),
              SFT |-> fmt, SFE |-> -1]
        ELSE [m |-> [Evaluated(m, r) EXCEPT !.ub = @ \/ ~r.set],
              SFT |-> fmt, SFE |-> r.v]
  IN  IF c = 0 THEN [m |-> m, SFT |-> "BINARY", SFE |-> -1]
      ELSE IF fmt = ""
      THEN [m |-> Exit(m, "Unknown output file format"),
            SFT |-> "", SFE |-> -1]
      ELSE IF NeedChar(s, c + 1, ",") = 0
      THEN [m |-> m, SFT |-> fmt, SFE |-> -1]
      ELSE Entry(EvalOperand(s, NeedChar(s, c + 1, ",") + 1, 0, Env(m)))

\* char *ParseStoreData(char *p)
ParseStoreData(m, s, i) ==
  LET Enter(f, SFA, SFL, SFF) ==
        IF f.m.fatal # "" THEN f.m
        ELSE IF Len(f.m.SF) < SFMAX
        THEN [f.m EXCEPT !.SF = Append(@, [SFA |-> SFA, SFL |-> SFL,
                                           SFE |-> f.SFE, SFF |-> SFF,
                                           SFT |-> f.SFT, SFR |-> 0])]
        ELSE Exit([f.m EXCEPT !.ub = TRUE], "number of storage files exceeds")
      File(m2, SFA, SFL, q) ==
        IF q = 0 THEN Exit(m2, "Missing quote for filename")
        ELSE Enter(StoreFormat(m2, s, QuoteEnd(s, q + 1)), SFA, SFL,
                   Slice(s, q + 1, QuoteEnd(s, q + 1)))
      Length(m1, SFA, r) ==
        LET m2 == [Evaluated(m1, r) EXCEPT !.ub = @ \/ (r.err = "" /\ ~r.set)]
            c  == NeedChar(s, r.p, ",")
        IN  IF r.err # "" THEN m2
            ELSE IF r.v < 0 \/ r.v > 65536
            THEN Exit(m2, "Illegal length for STORE")
            ELSE IF c = 0 THEN Exit(m2, "Missing ',' after length")
            ELSE File(m2, SFA, r.v, NeedChar(s, c + 1, "\""))
      Start(r) ==
        LET m1 == [Evaluated(m, r) EXCEPT !.ub = @ \/ (r.err = "" /\ ~r.set)]
            c  == NeedChar(s, r.p, ",")
        IN  IF r.err # "" THEN m1
            ELSE IF r.v < 0 \/ r.v > 65535
            THEN Exit(m1, "Illegal start address for STORE")
            ELSE IF c = 0 THEN Exit(m1, "Missing ',' after start address")
            ELSE Length(m1, r.v, EvalOperand(s, c + 1, 0, Env(m1)))
  IN  IF m.Phase < 2 THEN m ELSE Start(EvalOperand(s, i, 0, Env(m)))

\* char *ps_end(char *p)
ps_end(m, s, i) == [m EXCEPT !.ForcedEnd = TRUE]

\* the name of the file that INCLUDE can open
IncludeName == <<"i">>

\* char *IncludeFile(char *p), the pseudo op INCLUDE
IncludeFile(m, s, i) ==
  LET Open(FileName) ==
        IF Len(m.IncludeStack) >= 99
        THEN Exit(m, "Too many includes nested")
        ELSE IF FileName # IncludeName
        THEN Exit(m, "Could not open include file")
        ELSE [m EXCEPT !.IncludeStack =
                         Append(@, [fp |-> m.sf, LiNo |-> m.LiNo]),
                       !.sf = "lib", !.LiNo = 0]
      Name(q) == Open(Slice(s, q + 1, QuoteEnd(s, q + 1)))
  IN  IF NeedChar(s, i, "\"") = 0
      THEN Exit(m, "Missing quoted filename after INCLUDE")
      ELSE Name(NeedChar(s, i, "\""))

\* char *ParseCPUData(char *p)
ParseCPUData(m, s, i) ==
  LET p == IF At(s, SkipSpace(s, i)) = "=" THEN SkipSpace(s, i) + 1
           ELSE SkipSpace(s, i)
      Set(m1, cpu) ==
        IF m1.fatal # "" THEN m1
        ELSE IF cpu = 6809 THEN [m1 EXCEPT !.CPU = cpu, !.DimOp = DIMOP_6809]
        ELSE IF cpu = 6309 THEN [m1 EXCEPT !.CPU = cpu, !.DimOp = DIMOP_6309]
        ELSE Exit([m1 EXCEPT !.CPU = cpu], "Unknown CPU")
      Eval(r) == Set(Evaluated(m, r), IF r.set THEN r.v ELSE m.CPU)
  IN  Eval(EvalOperand(s, p, 0, Env(m)))

\* char *ps_setdp(char *p)
ps_setdp(m, s, i) ==
  LET Set(x) == [x.m EXCEPT !.DP = IF x.v > 255 THEN x.v \div 256 ELSE x.v]
  IN  Set(ExtractValue(m, s, i, m.DP))

\* PseudoTab[k].foo(p)
PseudoFoo(k, m, s, i) ==
  CASE k = 1 -> ParseByteData(m, s, i)
    [] k = 2 -> ParseCPUData(m, s, i)
    [] k = 3 -> ps_end(m, s, i)
    [] k = 4 -> IncludeFile(m, s, i)
    [] k = 5 -> ParseLoadData(m, s, i)
    [] k = 6 -> ps_org(m, s, i)
    [] k = 7 -> ps_setdp(m, s, i)
    [] k = 8 -> ParseStoreData(m, s, i)

\* CheckPseudo: the index of the first table entry the text at p starts
\* with, 0 if there is none
PseudoIndex(s, p) ==
  IF \E j \in 1..PSEUDOS : strcmpword(s, p, PseudoTab[j])
  THEN CHOOSE k \in 1..PSEUDOS :
         /\ strcmpword(s, p, PseudoTab[k])
         /\ \A j \in 1..(k - 1) : ~strcmpword(s, p, PseudoTab[j])
  ELSE 0

\* CheckPseudo after the pseudo op's function returned the machine a
PseudoEnd(a, p) ==
  IF a.fatal = "" /\ a.pc > 65536
  THEN [m |-> Exit(a, "Program counter overflow"), done |-> TRUE, p |-> p]
  ELSE [m |-> a, done |-> TRUE, p |-> p]

\* char *CheckPseudo(char *p): the machine, and done for the result NULL
\* (a pseudo op was processed)
CheckPseudo(m, s, i) ==
  IF PseudoIndex(s, SkipSpace(s, i)) = 0
  THEN [m |-> m, done |-> FALSE, p |-> SkipSpace(s, i)]
  ELSE PseudoEnd(PseudoFoo(PseudoIndex(s, SkipSpace(s, i)), m, s,
                           SkipSpace(s, i)
                           + Len(PseudoTab[PseudoIndex(s, SkipSpace(s, i))])),
                 SkipSpace(s, i))

-----------------------------------------------------------------------------
(* The post byte of the indexed address mode *)

OperandError(m) == Exit([m EXCEPT !.ErrNum = @ + 1], "Syntax error in operand")

\* int PostIndex(int reg, char *p), called with reg = -1: the register
\* bits, or -1 where the code calls OperandError
PostIndex(c) ==
  CASE toupper(c) = "X" -> 0
    [] toupper(c) = "Y" -> 32
    [] toupper(c) = "U" -> 64
    [] toupper(c) = "S" -> 96
    [] OTHER -> -1

\* int PostIndexReg(int reg, char *p)
PostIndexReg(s, i) ==
  IF PostIndex(At(s, i)) >= 0 /\ At(s, i + 1) = "" THEN PostIndex(At(s, i))
  ELSE -1

\* int PostIndexW(int reg, char *p)
PostIndexW(s, i) == IF toupper(At(s, i)) = "W" THEN 15 ELSE PostIndex(At(s, i))

\* the post byte bits of the accumulator offsets A,R B,R D,R E,R F,R W,R
AccumulatorBits ==
  [c \in {"A", "B", "D", "E", "F", "W"} |->
     CASE c = "A" -> 6 [] c = "B" -> 5 [] c = "D" -> 11
       [] c = "E" -> 7 [] c = "F" -> 10 [] c = "W" -> 14]

\* the number of characters c from index i on
RECURSIVE Run(_, _, _)
Run(s, i, c) == IF At(s, i) = c THEN 1 + Run(s, i + 1, c) ELSE 0

\* SetPostByte, the part "zero offset": p is at the comma
ZeroOffset(m, s, p) ==
  LET dec == Run(s, p + 1, "-")
      reg == PostIndexW(s, p + 1 + dec)
      inc == Run(s, p + 2 + dec, "+")
      amo == CASE inc = 1 /\ dec = 0 -> 0
               [] inc = 2 /\ dec = 0 -> 1
               [] inc = 0 /\ dec = 1 -> 2
               [] inc = 0 /\ dec = 2 -> 3
               [] inc = 0 /\ dec = 0 -> 4
               [] OTHER -> -1
      m1  == [m EXCEPT !.ql = 0]
  IN  IF reg < 0 \/ amo < 0 THEN [m |-> OperandError(m), pb |-> -1]
      ELSE IF reg = 15
      THEN CASE amo = 4 -> [m |-> m1, pb |-> 143]
             [] amo = 1 -> [m |-> m1, pb |-> 207]
             [] amo = 3 -> [m |-> m1, pb |-> 239]
             [] OTHER -> [m |-> OperandError(m1), pb |-> -1]
      ELSE [m |-> m1, pb |-> 128 + reg + amo]


\* if (ForcedMode <= 0 && off >= -16 && off < 16 && ind == 0)
FiveBit(ForcedMode, off) == ForcedMode <= 0 /\ off >= -16 /\ off < 16

\* SetPostByte, the part "constant offset": p is at the comma
ConstantOffset(m, s, p, off) ==
  LET reg == PostIndexW(s, p + 1)
      m1  == [m EXCEPT !.v = off]
  IN  IF reg < 0 THEN [m |-> OperandError(m1), pb |-> -1]
      ELSE IF reg = 15 THEN [m |-> [m1 EXCEPT !.ql = 2], pb |-> 175]
      ELSE IF FiveBit(m.ForcedMode, off)
      THEN [m |-> [m1 EXCEPT !.ql = 0], pb |-> reg + (off % 32)]
      ELSE IF m.ForcedMode < 0 \/ (off >= -128 /\ off < 128)
      THEN [m |-> [m1 EXCEPT !.ql = 1], pb |-> 128 + reg + 8]
      ELSE [m |-> [m1 EXCEPT !.ql = 2], pb |-> 128 + reg + 9]

\* SetPostByte, the part "PC relative"
PCRelative(m, s, p) ==
  LET Rel(m1, r, off) ==
        IF r.err # "" THEN [m |-> m1, pb |-> -1]
        ELSE IF m1.ForcedMode < 0
                \/ (off >= -128 /\ off < 128 /\ ROMat(m.ROM, m.pc) # 141)
        THEN [m |-> [m1 EXCEPT !.ql = 1, !.v = off, !.tgt = off + m.pc + 3],
              pb |-> 140]
        ELSE [m |-> [m1 EXCEPT !.ql = 2, !.v = off - 1,
                               !.tgt = off + m.pc + 3],
              pb |-> 141]
      Eval(r) ==
        Rel(Evaluated(m, r), r, (IF r.set THEN r.v ELSE 0) - (m.pc + 3))
  IN  Eval(EvalOperand(s, p, 0, Env(m)))

\* int SetPostByte(char *p, int *v), for an operand that is not indirect:
\* the machine (ql and v set) and the post byte
SetPostByte(m, s, p) ==
  LET opl == Len(s) - p + 1
      acc == toupper(At(s, p)) \in DOMAIN AccumulatorBits /\ At(s, p + 1) = ","
      pcr == \/ opl > 4 /\ PrefixCI(s, Len(s) - 3, <<",", "P", "C", "R">>)
             \/ opl > 3 /\ PrefixCI(s, Len(s) - 2, <<",", "P", "C">>)
      Acc(reg) ==
        IF reg < 0 THEN [m |-> OperandError(m), pb |-> -1]
        ELSE [m |-> [m EXCEPT !.ql = 0],
              pb |-> 128 + reg + AccumulatorBits[toupper(At(s, p))]]
      Index(m1, q, off) ==
        IF m1.fatal # "" THEN [m |-> m1, pb |-> -1]
        ELSE IF At(s, q) = "," /\ off = 0 THEN ZeroOffset(m1, s, q)
        ELSE IF At(s, q) = "," THEN ConstantOffset(m1, s, q, off)
        ELSE [m |-> OperandError(m1), pb |-> -1]
      Offset(r) ==
        IF At(s, p) # ","
        THEN Index(Evaluated(m, r), r.p, IF r.set THEN r.v ELSE 0)
        ELSE Index(m, p, 0)
  IN  IF acc THEN Acc(PostIndexReg(s, p + 2))
      ELSE IF pcr THEN PCRelative(m, s, p)
      ELSE Offset(EvalOperand(s, p, 0, Env(m)))


-----------------------------------------------------------------------------
(* GenerateCode.  None of the modelled mnemonics is an immediate to memory *)
(* instruction (XIM = 0) or has a register mode; operands in brackets with *)
(* a comma, operands that start with an apostrophe, local labels (+ -) and *)
(* bit operations are not among the modelled lines.  tgt is the value of   *)
(* the operand as evaluated.                                               *)

\* ol = 1 + (oc > 255)
OpcodeLength(oc) == IF oc > 255 THEN 2 ELSE 1

\* int RegisterSize(int n), or 0 where it exits
RegisterSize(k) ==
  LET r == Mat[k].Mne[Len(Mat[k].Mne)]
  IN  CASE r \in {"A", "B", "C", "E", "F"} -> 1
        [] r \in {"D", "X", "Y", "W", "S", "U"} -> 2
        [] r = "Q" -> 4
        [] OTHER -> 0

\* the optimizer of the relative address mode: three ifs in sequence
FixShortToLong(m) ==
  IF /\ m.v < -128 /\ m.oc >= 32 /\ m.oc < 48
     /\ (m.Phase = 1 \/ (m.Phase = 2 /\ ADLat(m.ADL, m.pc) >= 3))
  THEN IF m.oc = 32
       THEN [m EXCEPT !.oc = 22, !.ol = 1, !.ql = 2, !.il = 3]
       ELSE [m EXCEPT !.oc = @ + 4096, !.ol = 2, !.ql = 2, !.il = 4]
  ELSE m

LongToShort(m) ==
  IF /\ m.v >= -128 /\ m.v < 0 /\ m.oc > 4128 /\ m.oc < 4144
     /\ (m.Phase = 1 \/ (m.Phase = 2 /\ ADLat(m.ADL, m.pc) = 2))
  THEN [m EXCEPT !.oc = @ % 256, !.ol = 1, !.ql = 1, !.il = 2]
  ELSE m

LBRAToBRA(m) ==
  IF /\ m.v >= -128 /\ m.v < 0 /\ m.oc = 22
     /\ (m.Phase = 1 \/ (m.Phase = 2 /\ ADLat(m.ADL, m.pc) = 2))
  THEN [m EXCEPT !.oc = 32, !.ol = 1, !.ql = 1, !.il = 2]
  ELSE m

\* GenerateCode, relative address mode
RelativeMode(m, k, Op) ==
  LET oc == Mat[k].Relative
      opl == OpcodeLength(oc)
      ql == IF Mat[k].Mne[1] = "L" THEN 2 ELSE 1
      Range(m1, m2) ==
        IF m1.Phase = 2 /\ m1.v = UNDEF
        THEN Exit(m1, "Branch to undefined label")
        ELSE IF m2.Phase = 2 /\ m2.ql = 1 /\ (m2.v < -128 \/ m2.v > 127)
        THEN Exit(m2, "Short Branch out of range")
        ELSE [m2 EXCEPT !.v = @ % 65536]
      Branch(m1, r) ==
        IF r.err # "" THEN m1
        ELSE Range(m1, IF Optimize
                       THEN LBRAToBRA(LongToShort(FixShortToLong(m1)))
                       ELSE m1)
      Target(r, t) ==
        Branch([Evaluated(m, r) EXCEPT
                  !.oc = oc, !.ol = opl, !.ql = ql, !.il = opl + ql, !.tgt = t,
                  !.v = IF t # UNDEF THEN t - (m.pc + opl + ql) ELSE t], r)
      Eval(r) == Target(r, IF r.set THEN r.v ELSE UNDEF)
  IN  Eval(EvalOperand(Op, 1, 0, Env(m)))

\* GenerateCode, immediate address mode
ImmediateMode(m, k, Op) ==
  LET oc == Mat[k].Immediate
      ql == RegisterSize(k)
      Range(m2) ==
        IF m2.Phase = 2 /\ m2.v = UNDEF
        THEN Exit(m2, "Undefined immediate value")
        ELSE IF m2.ql = 1 /\ m2.Phase = 2 /\ (m2.v < -128 \/ m2.v > 255)
        THEN Exit(m2, "Immediate value out of range")
        ELSE IF m2.ql = 2 /\ m2.Phase = 2 /\ (m2.v < -32768 \/ m2.v > 65535)
        THEN Exit(m2, "Immediate value out of range")
        ELSE m2
      Value(m1, r) ==
        IF r.err # "" THEN m1
        ELSE IF At(Op, r.p) # "" THEN Exit(m1, "Extra text after operand")
        ELSE IF ql = 0 THEN Exit(m1, "Illegal register name")
        ELSE Range([m1 EXCEPT !.il = m1.ol + m1.ql])
      Eval(r) ==
        Value([Evaluated(m, r) EXCEPT !.oc = oc, !.ol = OpcodeLength(oc),
                 !.ql = IF ql = 4 /\ oc # 205 THEN 2 ELSE ql,
                 !.v = IF r.set THEN r.v ELSE UNDEF], r)
  IN  IF oc < 0
      THEN Exit([m EXCEPT !.ErrNum = @ + 1, !.oc = oc],
                "Illegal immediate instruction")
      ELSE Eval(EvalOperand(Op, 2, 0, Env(m)))

\* GenerateCode, indexed address mode
IndexedMode(m, k, Op, p) ==
  LET oc == Mat[k].Indexed
      Post(x) ==
        IF x.m.fatal # "" THEN x.m
        ELSE [x.m EXCEPT !.pb = x.pb, !.ol = OpcodeLength(oc),
                         !.il = OpcodeLength(oc) + 1 + x.m.ql]
  IN  IF oc < 0
      THEN Exit([m EXCEPT !.ErrNum = @ + 1, !.oc = oc],
                "Illegal indexed instruction")
      ELSE Post(SetPostByte([m EXCEPT !.oc = oc], Op, p))

\* GenerateCode, the address mode "all other", in phase 2: opcode and
\* instruction length are those of phase 1
OtherPhase2(m) ==
  LET b  == ROMat(m.ROM, m.pc)
      opl == IF b = 16 \/ b = 17 THEN 2 ELSE 1
      oc == IF opl = 2 THEN b * 256 + ROMat(m.ROM, m.pc + 1) ELSE b
      il == ADLat(m.ADL, m.pc)
  IN  [m EXCEPT !.oc = oc, !.ol = opl, !.il = il, !.ql = il - opl,
                !.v = IF m.ForcedMode < 0 \/ il - opl = 1 THEN @ % 256 ELSE @]

\* phase 1 with the prefix > of the operand ignored
OtherPhase1_unforced(m, k) ==
  LET oc == Mat[k].Extended
      opl == OpcodeLength(oc)
      qc == Mat[k].Direct
      m1 == [m EXCEPT !.oc = oc, !.ol = opl, !.ql = 2, !.il = opl + 2]
  IN  IF oc < 0
      THEN Exit([m EXCEPT !.ErrNum = @ + 1, !.oc = oc], "Illegal instruction")
      ELSE IF /\ qc >= 0
              /\ (m.ForcedMode < 0 \/ (m.v # UNDEF /\ m.v \div 256 = m.DP))
      THEN [m1 EXCEPT !.oc = qc, !.v = @ % 256, !.ql = 1, !.il = opl + 1]
      ELSE m1

\* the same in phase 1: extended address mode unless direct applies
OtherPhase1(m, k) ==
  LET oc == Mat[k].Extended
      opl == OpcodeLength(oc)
      qc == Mat[k].Direct
      m1 == [m EXCEPT !.oc = oc, !.ol = opl, !.ql = 2, !.il = opl + 2]
  IN  IF oc < 0
      THEN Exit([m EXCEPT !.ErrNum = @ + 1, !.oc = oc], "Illegal instruction")
      ELSE IF /\ m.ForcedMode <= 0
              /\ qc >= 0
              /\ (m.ForcedMode < 0 \/ (m.v # UNDEF /\ m.v \div 256 = m.DP))
      THEN [m1 EXCEPT !.oc = qc, !.v = @ % 256, !.ql = 1, !.il = opl + 1]
      ELSE m1

\* optimize JMP to BRA
JMPToBRA(m) ==
  LET rd == m.v - m.pc - 3
  IN  IF rd >= -128 /\ rd < 0
         /\ ((m.Phase = 1 /\ m.oc = 126) \/ (m.Phase = 2 /\ m.oc = 32))
      THEN [m EXCEPT !.oc = 32, !.ol = 1, !.ql = 1, !.il = 2, !.v = rd]
      ELSE m

\* GenerateCode, the address mode "all other"
OtherMode(m, k, Op, p) ==
  LET Opt(m2) ==
        IF m2.fatal # "" THEN m2
        ELSE IF Optimize THEN JMPToBRA(m2) ELSE m2
      Mode(m1, r) ==
        IF r.err # "" THEN m1
        ELSE Opt(IF m1.Phase = 2 THEN OtherPhase2(m1) ELSE OtherPhase1(m1, k))
      Value(r, t) == Mode([Evaluated(m, r) EXCEPT !.v = t, !.tgt = t], r)
      Eval(r) == Value(r, IF r.set THEN r.v ELSE UNDEF)
  IN  Eval(EvalOperand(Op, p, 0, Env(m)))

\* GenerateCode, the address mode "indirect indexed" for an operand in
\* brackets without a comma: il is computed from the ol that the instruction
\* assembled before left behind
IndirectMode(m, k, Op) ==
  LET oc == Mat[k].Indexed
      Value(m1, r) ==
        IF r.err # "" THEN m1
        ELSE [m1 EXCEPT !.v = IF r.set THEN r.v ELSE UNDEF,
                        !.tgt = IF r.set THEN r.v ELSE UNDEF,
                        !.pb = 159, !.ql = 2, !.il = m1.ol + 3]
      Eval(r) == Value(Evaluated([m EXCEPT !.oc = oc], r), r)
  IN  IF Op[Len(Op)] # "]" THEN Exit(m, "Missing closing bracket ]")
      ELSE IF oc < 0
      THEN Exit([m EXCEPT !.ErrNum = @ + 1, !.oc = oc], "Illegal instruction")
      ELSE Eval(EvalOperand(Op, 2, 0, Env(m)))

\* the address mode chain of GenerateCode
AddressMode(m, k, Op) ==
  LET p == SkipSpace(Op, 1)
      oc == Mat[k].Inherent
  IN  IF oc >= 0
      THEN [m EXCEPT !.oc = oc, !.ol = OpcodeLength(oc), !.il = OpcodeLength(oc)]
      ELSE IF Op = <<>>
      THEN Exit([m EXCEPT !.ErrNum = @ + 1, !.oc = oc], "Missing operand")
      ELSE IF Mat[k].Relative >= 0 THEN RelativeMode(m, k, Op)
      ELSE IF At(Op, p) = "#" THEN ImmediateMode(m, k, Op)
      ELSE IF \E j \in p..Len(Op) : Op[j] = "," THEN IndexedMode(m, k, Op, p)
      ELSE IF Op[1] = "[" THEN IndirectMode(m, k, Op)
      ELSE OtherMode(m, k, Op, p)

\* GenerateCode in phase 2, "insert binary code": the operand bytes
PutOperand(m, a) ==
  LET v1 == IF m.v >= 65280 /\ m.v <= 65535 THEN m.v % 256 ELSE m.v
      v2 == IF v1 - m.DP * 256 < 256 /\ v1 - m.DP * 256 >= -128
            THEN v1 - m.DP * 256 ELSE v1
  IN  CASE m.ql = 4 ->
             PutAll(m, a, <<(m.v \div 16777216) % 256, (m.v \div 65536) % 256,
                            (m.v \div 256) % 256, m.v % 256>>)
        [] m.ql = 2 ->
             IF m.v > 65535 \/ m.v < -32768
             THEN Exit(m, "16 bit address/value out of range")
             ELSE PutAll(m, a, <<(m.v \div 256) % 256, m.v % 256>>)
        [] m.ql = 1 ->
             IF v2 > 255 \/ v2 < -128
             THEN Exit([m EXCEPT !.v = v2], "8 bit address/value out of range")
             ELSE Put([m EXCEPT !.v = v2], a, v2)
        [] OTHER -> m

\* GenerateCode in phase 2, from Synchronize to the NOP padding
InsertCode(m0) ==
  LET m  == Synchronize(m0)
      a  == IF m.oc > 255
            THEN PutAll(m, m.pc, <<m.oc \div 256, m.oc % 256>>)
            ELSE Put(m, m.pc, m.oc)
      b  == Then(a, LAMBDA x : IF x.pb >= 0 THEN Put(x, x.pc + x.puts, x.pb)
                               ELSE x)
      c  == Then(b, LAMBDA x : PutOperand(x, x.pc + x.puts))
  IN  IF m.v = UNDEF /\ m.ql > 0 THEN Exit(m, "Use of an undefined label")
      ELSE Then(c, LAMBDA x :
             PutAll(x, x.pc + x.puts,
                    [i \in 1..(IF x.nops > 0 THEN x.nops ELSE 0) |-> 18]))

\* the end of GenerateCode: the check of il, and the new pc
Advance(m) ==
  LET bad == m.il < 1 \/ m.il > 5
      il  == IF bad THEN 1 ELSE m.il
      m1  == [m EXCEPT !.il = il, !.ErrNum = IF bad THEN @ + 1 ELSE @]
  IN  IF m1.pc + il > 65535
      THEN [m1 EXCEPT !.ErrNum = IF m1.Phase > 1 THEN @ + 1 ELSE @]
      ELSE [m1 EXCEPT !.pc = @ + il]

\* the entry of ilog for the instruction that machine m has completed
LogEntry(m0, m, k) ==
  [Mne |-> Mat[k].Mne, pc |-> m0.pc, ADL |-> ADLat(m0.ADL, m0.pc),
   puts |-> m.puts, next |-> m.pc, oc |-> m.oc, ol |-> m.ol, ql |-> m.ql,
   v |-> m.v, tgt |-> m.tgt, nops |-> m.nops, pb |-> m.pb,
   slot |-> [i \in 0..(ADLat(m0.ADL, m0.pc) - 1) |-> ROMat(m.ROM, m0.pc + i)]]

\* char *GenerateCode(char *p), for the mnemonic Mat[k] and operand text Op
GenerateCode(m0, k, Op) ==
  LET m  == [m0 EXCEPT !.v = UNDEF, !.pb = -1, !.ql = 0, !.puts = 0,
                       !.tgt = UNDEF]
      Log(c) ==
        IF c.fatal = "" /\ c.Phase = 2
        THEN [c EXCEPT !.ilog = Append(@, LogEntry(m0, c, k))]
        ELSE c
      Code(x) ==
        IF x.Phase = 1 THEN SetInstructionLength(x)
        ELSE IF x.Phase = 2 THEN InsertCode(x) ELSE x
  IN  IF m.pc < 0 THEN Exit(m, "Undefined program counter (PC)")
      ELSE Log(Then(Then(AddressMode(m, k, Op), Code), Advance))


-----------------------------------------------------------------------------
(* ParseLine and the two passes *)

\* char *SetBSS(char *p)
SetBSS(m, s, i) ==
  LET Set(x) == [x.m EXCEPT !.bss = x.v]
  IN  IF NeedChar(s, i, "=") # 0
      THEN Set(ExtractValue(m, s, NeedChar(s, i, "=") + 1, m.bss))
      ELSE Exit([m EXCEPT !.ErrNum = @ + 1],
                "Missing '=' in set BSS & instruction")

\* char *SetPC(char *p)
SetPC(m, s, i) ==
  IF NeedChar(s, i, "=") # 0 THEN ps_org(m, s, NeedChar(s, i, "=") + 1)
  ELSE Exit([m EXCEPT !.ErrNum = @ + 1], "Setting PC syntax error")

\* the lines of the file behind the handle f
File(f) == IF f = "lib" THEN lib ELSE src

-----------------------------------------------------------------------------
(* Macros.  Mac[j] is [Name, Narg, Type, Body]; Body is the sequence of    *)
(* the lines of the C string "Line1\nLine2\n", and the empty sequence is   *)
(* the null pointer of a macro without lines.  MacPtr[l] is [j, pos]: the  *)
(* pointer of level l is at the start of line pos of Mac[j].Body.          *)

DecDigits == <<"0", "1", "2", "3", "4", "5", "6", "7", "8", "9">>

\* char *GetMacroArg(char *p, char *s)
GetMacroArg(s, i) ==
  LET a == SkipSpace(s, i)
      RECURSIVE ArgEnd(_)
      ArgEnd(k) == IF At(s, k) \in {"", ",", ")"} THEN k ELSE ArgEnd(k + 1)
  IN  [Sym |-> Slice(s, a, ArgEnd(a)), p |-> ArgEnd(a)]

\* char *NextSymbol(char *p, char *s)
NextSymbol(s, i) == GetSymbol(s, SkipSpace(s, i), <<>>)

\* int MacroIndex(char *p), for p the text of s from i on: the index of the
\* first macro whose name is there, or 0 for none (-1 in C)
MacroIndex(mac, s, i) ==
  LET hit == {j \in 1..Len(mac) :
                StartsWith(s, i, mac[j].Name) /\ ~isym(At(s, i + Len(mac[j].Name)))}
  IN  IF hit = {} THEN 0 ELSE CHOOSE j \in hit : \A k \in hit : j <= k

\* char *StrCaseStr(char *s1, const char *s2) != NULL
StrCaseStr(s, w) == StrMatch(s, 1, w)

\* int ScanArguments(char *p, char *args, int ptr[], int nargs): args holds
\* the arguments scanned so far; the result is the arguments, whether the
\* call exits with an error, and whether ptr[10] was written
RECURSIVE ScanArguments(_, _, _, _)
ScanArguments(s, p, args, nargs) ==
  LET a  == SkipSpace(s, p)
      g  == IF nargs = MAXARGS THEN GetSymbol(s, a, <<>>) ELSE GetMacroArg(s, a)
      as == Append(args, g.Sym)
      q  == SkipSpace(s, g.p)
      R(x, e) == [args |-> x, err |-> e, ub |-> Len(x) >= MAXARGS]
  IN  IF At(s, p) = "" \/ Len(args) >= nargs THEN R(args, FALSE)
      ELSE IF At(s, a) = ")" THEN R(args, FALSE)
      ELSE IF At(s, q) = ")" THEN R(as, FALSE)
      ELSE IF At(s, q) # "," /\ Len(as) < nargs - 1 /\ nargs < MAXARGS
      THEN R(as, TRUE)
      ELSE ScanArguments(s, IF At(s, q) = "," THEN q + 1 ELSE q, as, nargs)

\* int ScanArgs(char *p, char *args, int ptr[])
RECURSIVE ScanArgs(_, _, _)
ScanArgs(s, p, args) ==
  LET a  == SkipSpace(s, p)
      g  == NextSymbol(s, a)
      as == Append(args, g.Sym)
      q  == SkipSpace(s, g.p)
      R(x) == [args |-> x, err |-> FALSE, ub |-> Len(x) >= MAXARGS]
  IN  IF At(s, p) = "" \/ Len(args) >= MAXARGS THEN R(args)
      ELSE IF At(s, a) = ";" THEN R(args)
      ELSE IF At(s, q) # "," THEN R(as)
      ELSE ScanArgs(s, q + 1, as)

\* RecordMacro's loop over the characters of a line of the body: the text
\* of an argument becomes CHAMAC and the digit of the argument
RECURSIVE Substituted(_, _, _)
Substituted(s, p, args) ==
  LET hit == {i \in 1..Len(args) : args[i] # <<>> /\ StartsWith(s, p, args[i])}
      i   == CHOOSE x \in hit : \A y \in hit : x <= y
  IN  IF At(s, p) = "" THEN <<>>
      ELSE IF hit # {}
      THEN <<CHAMAC, DecDigits[i]>> \o Substituted(s, p + Len(args[i]), args)
      ELSE <<s[p]>> \o Substituted(s, p + 1, args)

\* RecordMacro's and the listing's loop over the lines after line n of file
\* f: the number of lines in front of the first one that holds ENDM
RECURSIVE BodyLines(_, _)
BodyLines(f, n) ==
  IF n >= Len(f) \/ StrCaseStr(f[n + 1], <<"E", "N", "D", "M">>) THEN 0
  ELSE 1 + BodyLines(f, n + 1)

\* if (*p == c) ++p
SkipChar(s, p, c) == IF At(s, p) = c THEN p + 1 ELSE p

\* char *StrMatch(char *s, const char *m), for s the text from i on: the
\* index of the first match, behind the text for NULL
StrMatchAt(s, i, w) ==
  CHOOSE j \in i..(Len(s) + 1) :
    /\ j <= Len(s) => PrefixCI(s, j, w)
    /\ \A k \in i..(j - 1) : ~PrefixCI(s, k, w)

\* RecordMacro from j = MacroIndex(Macro) on: the macro is of type mf, its
\* name is Macro, ScanArgs or ScanArguments returned an, and k lines of the
\* file lie in front of the line with ENDM
MacroEntry(m, mf, Macro, an, k) ==
  LET f == File(m.sf)
      Read(x) == [x EXCEPT !.LiNo = @ + k + 1,
                           !.Line = IF m.LiNo + k < Len(f)
                                    THEN f[m.LiNo + k + 1]
                                    ELSE IF k > 0 THEN f[m.LiNo + k] ELSE @,
                           !.ub = @ \/ an.ub]
  IN  IF MacroIndex(m.Mac, Macro, 1) = 0
      THEN Read([m EXCEPT !.Mac =
                   Append(@, [Name |-> Macro, Narg |-> Len(an.args),
                              Type |-> mf,
                              Body |-> [i \in 1..k |->
                                          Substituted(f[m.LiNo + i], 1,
                                                      an.args)]])])
      ELSE IF m.Phase = 2 THEN Read(m)
      ELSE IF m.Phase = 1
      THEN Exit([m EXCEPT !.ErrNum = @ + 1, !.ub = @ \/ an.ub],
                "Duplicate macro")
      ELSE [m EXCEPT !.LiNo = @ + 1, !.ub = @ \/ an.ub]

\* RecordMacro for "name MACRO": g is NextSymbol's result and mp the index
\* of MACRO; StrMatch(p,"MACRO") + 5 is undefined for a null pointer
MacroNamed(m, s, g, mp) ==
  MacroEntry([m EXCEPT !.ub = @ \/ mp > Len(s)], 1, g.Sym,
             ScanArgs(s, SkipChar(s, SkipSpace(s, mp + 5), "("), <<>>),
             BodyLines(File(m.sf), m.LiNo))

\* RecordMacro for "MACRO name": g is NextSymbol's result
MacroNamedLast(m, s, g) ==
  MacroEntry(m, 0, g.Sym,
             ScanArguments(s, SkipChar(s, SkipSpace(s, g.p), "("), <<>>,
                           MAXARGS),
             BodyLines(File(m.sf), m.LiNo))

\* RecordMacro after "p = NextSymbol(p,Macro)" for a macro "name MACRO"
MacroAfterName(m, s, g) ==
  MacroNamed(m, s, g, StrMatchAt(s, g.p, <<"M", "A", "C", "R", "O">>))

\* void RecordMacro(char *p)
RecordMacro(m, s, cp) ==
  IF Len(m.Mac) > MAXMAC - 2
  THEN Exit([m EXCEPT !.ErrNum = @ + 1], "Too many macros")
  ELSE IF strcmpword(s, cp, <<"M", "A", "C", "R", "O">>)
  THEN MacroNamedLast(m, s, NextSymbol(s, cp + 5))
  ELSE MacroAfterName(m, s, NextSymbol(s, cp))

\* ExpandMacro from the test of the number of arguments on: macro j is
\* called with the text t, and ScanArguments returned an
MacroCalled(m, j, t, an) ==
  LET Log(x) == [x EXCEPT !.maclog =
                   Append(@, [Name |-> m.Mac[j].Name, Narg |-> m.Mac[j].Narg,
                              OpText |-> t, an |-> Len(an.args),
                              Phase |-> m.Phase, fatal |-> x.fatal]),
                          !.ub = @ \/ an.ub, !.MacArgs = an.args]
  IN  Log(IF an.err
          THEN Exit([m EXCEPT !.ErrNum = @ + 1],
                    "Syntax error in macro definition")
          ELSE IF Len(an.args) # m.Mac[j].Narg
          THEN Exit([m EXCEPT !.ErrNum = @ + 1], "Wrong # of arguments")
          ELSE [m EXCEPT !.MacPtr = Append(@, [j |-> j, pos |-> 1])])

\* ExpandMacro from "j = MacroIndex(m)" on, t the text behind the name and
\* an optional parenthesis, without the comment
MacroFound(m, j, t) ==
  IF j = 0 THEN [m |-> m, j |-> 0]
  ELSE [m |-> MacroCalled(m, j, t, ScanArguments(t, 1, <<>>, m.Mac[j].Narg)),
        j |-> j]

\* int ExpandMacro(char *m), for the text of s from cp on: the machine and
\* the index of the macro, 0 for none (-1 in C)
ExpandMacro(m, s, cp) ==
  MacroFound(m, MacroIndex(m.Mac, s, cp),
             ExtractOpText(s, SkipChar(s, SkipSpace(s, NextSymbol(s, cp).p),
                                       "(")).OpText)

\* NextMacLine's loop over the characters of a line of the body: CHAMAC
\* and the digit i become the text of argument i
RECURSIVE Expanded(_, _)
Expanded(b, args) ==
  LET i == CHOOSE x \in 1..Len(DecDigits) : DecDigits[x] = b[2]
  IN  IF b = <<>> THEN <<>>
      ELSE IF b[1] = CHAMAC
      THEN (IF i <= Len(args) THEN args[i] ELSE <<>>)
             \o Expanded(SubSeq(b, 3, Len(b)), args)
      ELSE <<b[1]>> \o Expanded(Tail(b), args)

\* NextMacLine: while (MacLev > 0 && *MacPtr[MacLev] == 0) --MacLev
RECURSIVE EndedLevels(_, _)
EndedLevels(mac, ptr) ==
  IF ptr # <<>> /\ ptr[Len(ptr)].pos > Len(mac[ptr[Len(ptr)].j].Body)
  THEN EndedLevels(mac, SubSeq(ptr, 1, Len(ptr) - 1))
  ELSE ptr

\* void NextMacLine(char *w), for w = Line.  The body of a macro without
\* lines is a null pointer, which the first loop reads through.
NextMacLine(m) ==
  LET ptr  == EndedLevels(m.Mac, m.MacPtr)
      l    == Len(ptr)
      null == \E i \in (l + 1)..Len(m.MacPtr) :
                m.Mac[m.MacPtr[i].j].Body = <<>>
  IN  IF l = 0
      THEN [m EXCEPT !.LiNo = @ - 1, !.MacPtr = <<>>, !.Line = <<>>,
                     !.ub = @ \/ null]
      ELSE [m EXCEPT !.LiNo = @ - 1,
                     !.MacPtr = [ptr EXCEPT ![l].pos = @ + 1],
                     !.Line = Expanded(m.Mac[ptr[l].j].Body[ptr[l].pos],
                                       m.MacArgs),
                     !.ub = @ \/ null]

\* ParseLine from the second CheckPseudo on: its result is c, MneIndex is k
ParseMnemonic(c, m, s, k) ==
  LET n == IF k = 0 THEN IsInstruction(s, c.p, m.DimOp) ELSE k
  IN  IF c.done THEN c.m
      ELSE IF n > 0
      THEN GenerateCode(
             [m EXCEPT !.ForcedMode =
                ExtractOpText(s, c.p + Len(Mat[n].Mne)).ForcedMode],
             n, ExtractOpText(s, c.p + Len(Mat[n].Mne)).OpText)
      ELSE IF At(s, c.p) \in {"", ";", "*"} THEN m
      ELSE Exit([m EXCEPT !.ErrNum = @ + 1], "Syntax error")

\* ParseLine from "if (ForcedEnd) return" on: cp is at index d.p, MneIndex
\* is d.k
ParseCode(d, s) ==
  IF d.m.fatal # "" \/ d.m.ForcedEnd \/ At(s, d.p) \in {"", ";"} THEN d.m
  ELSE IF At(s, d.p) = "&" THEN SetBSS(d.m, s, d.p + 1)
  ELSE IF At(s, d.p) = "*" THEN SetPC(d.m, s, d.p + 1)
  ELSE ParseMnemonic(CheckPseudo(d.m, s, d.p), d.m, s, d.k)

\* ParseLine after DefineLabel returned d: skip the blanks after the label
AfterLabel(d, s) == [m |-> d.m, p |-> SkipSpace(s, d.p), k |-> 0]

\* ParseLine after ExpandMacro returned x: a macro call moves cp to the end
\* of the line
AfterMacro(x, s, p) ==
  [m |-> x.m, p |-> IF x.j > 0 THEN Len(s) + 1 ELSE p, k |-> 0]

\* ParseLine's calls of ExpandMacro: for the first text of the line, and if
\* that is not a macro for the text behind the label (d is DefineLabel's
\* result then: "Macro after label")
MacroAt(d, s) ==
  IF d.m.fatal # "" \/ At(s, d.p) = "" THEN d
  ELSE AfterMacro(ExpandMacro(d.m, s, d.p), s, d.p)

\* ParseLine's block "Macro, Label or mnemonic": every modelled line that
\* reaches GenerateCode starts with a letter, so that this block sets
\* MneIndex
ParseLabel(m, s, cp) ==
  IF At(s, cp) \in {".", "_"} \/ isalpha(At(s, cp))
  THEN IF StrMatch(s, cp, <<"M", "A", "C", "R", "O">>)
       THEN [m |-> RecordMacro(m, s, cp), p |-> Len(s) + 1, k |-> 0]
       ELSE IF IsInstruction(s, cp, m.DimOp) > 0
       THEN [m |-> m, p |-> cp, k |-> IsInstruction(s, cp, m.DimOp)]
       ELSE MacroAt(IF MacroIndex(m.Mac, s, cp) > 0
                    THEN [m |-> m, p |-> cp, k |-> 0]
                    ELSE AfterLabel(DefineLabel(m, s, cp, FALSE), s), s)
  ELSE [m |-> m, p |-> cp, k |-> 0]

\* ParseLine from the first CheckPseudo on, whose result is c: the SDDRIVE
\* comment style and local labels (+ -) are not among the modelled lines
ParseStatement(c, m, s) ==
  IF c.done THEN c.m ELSE ParseCode(ParseLabel(m, s, c.p), s)

\* ParseLine after CheckCondition returned c
ParseUnskipped(c, s, cp) ==
  IF c.m.fatal # "" \/ c.r \/ c.m.Skipping THEN c.m
  ELSE IF At(s, cp) \in {"", ";"} THEN c.m
  ELSE IF At(s, cp) = "*" /\ NeedChar(s, cp + 1, "=") = 0 THEN c.m
  ELSE ParseStatement(CheckPseudo(c.m, s, cp), c.m, s)

\* void ParseLine(char *cp)
ParseLine(m, s) ==
  ParseUnskipped(CheckCondition(m, s, SkipSpace(s, SkipHexCode(s))),
                 s, SkipSpace(s, SkipHexCode(s)))

\* the machine of the current state
Machine ==
  [Phase |-> Phase, LiNo |-> LiNo, pc |-> pc, lab |-> lab, ROM |-> ROM,
   LOCK |-> LOCK, ADL |-> ADL, ErrNum |-> ErrNum, IfLevel |-> IfLevel,
   SkipLine |-> SkipLine, Skipping |-> Skipping, ForcedEnd |-> ForcedEnd,
   EnumValue |-> EnumValue, SF |-> SF, fatal |-> fatal, ub |-> ub,
   written |-> written, ilog |-> ilog, deflog |-> deflog, asglog |-> asglog,
   CPU |-> CPU, DimOp |-> DimOp,
   sf |-> sf, IncludeStack |-> IncludeStack, Line |-> Line,
   Mac |-> Mac, MacPtr |-> MacPtr, MacArgs |-> MacArgs, maclog |-> maclog,
   DP |-> DP, ol |-> ol, bss |-> bss,
   oc |-> -1, ql |-> 0, il |-> 0, pb |-> -1, nops |-> 0,
   ForcedMode |-> 0, v |-> UNDEF, tgt |-> UNDEF, puts |-> 0]

\* the next state holds machine m
Install(m) ==
  /\ Phase' = m.Phase /\ LiNo' = m.LiNo /\ pc' = m.pc /\ lab' = m.lab
  /\ ROM' = m.ROM /\ LOCK' = m.LOCK /\ ADL' = m.ADL /\ ErrNum' = m.ErrNum
  /\ IfLevel' = m.IfLevel /\ SkipLine' = m.SkipLine
  /\ Skipping' = m.Skipping /\ ForcedEnd' = m.ForcedEnd
  /\ EnumValue' = m.EnumValue /\ SF' = m.SF /\ fatal' = m.fatal
  /\ ub' = m.ub /\ written' = m.written /\ ilog' = m.ilog
  /\ deflog' = m.deflog
  /\ asglog' = m.asglog
  /\ CPU' = m.CPU /\ DimOp' = m.DimOp
  /\ sf' = m.sf /\ IncludeStack' = m.IncludeStack /\ Line' = m.Line
  /\ Mac' = m.Mac /\ MacPtr' = m.MacPtr /\ MacArgs' = m.MacArgs
  /\ maclog' = m.maclog
  /\ DP' = m.DP /\ ol' = m.ol /\ bss' = m.bss

\* feof(sf) || ForcedEnd: LiNo lines of sf were parsed, and fgets has tried
\* to read the next one
Eof(m) == m.LiNo >= Len(File(m.sf)) \/ m.ForcedEnd

\* fgets(Line,sizeof(Line),sf): at the end of the file Line stays as it is
Fgets(m) ==
  IF m.LiNo < Len(File(m.sf))
  THEN [m EXCEPT !.Line = File(m.sf)[m.LiNo + 1]]
  ELSE m

\* int CloseInclude(void)
CloseInclude(m) ==
  LET top == m.IncludeStack[Len(m.IncludeStack)]
  IN  [Fgets([m EXCEPT !.sf = top.fp, !.LiNo = top.LiNo,
                       !.IncludeStack = SubSeq(@, 1, Len(@) - 1)])
         EXCEPT !.ForcedEnd = FALSE]

\* Phase1 and Phase2: if (Eof && IncludeLevel > 0) Eof = CloseInclude()
EndOfFile(m) ==
  IF Eof(m) /\ m.IncludeStack # <<>> THEN CloseInclude(m) ELSE m

\* the end of a turn of the loops of Phase1 and Phase2: the next line is
\* read, and at the end of an included file the file is closed
ReadNext(m) ==
  IF m.fatal # "" THEN m
  ELSE EndOfFile(IF m.MacPtr # <<>> THEN NextMacLine(m) ELSE Fgets(m))

\* the condition that ends the loops of Phase1 and Phase2
LoopEnd(m) == Eof(m) /\ m.IncludeStack = <<>>

\* Phase1(), up to the loop
BeginPhase1 ==
  /\ at = "main"
  /\ Install(Fgets([Machine EXCEPT !.Phase = 1, !.ForcedEnd = FALSE]))
  /\ at' = "phase1"
  /\ UNCHANGED <<exprVars, files, src, lib, Optimize, capped>>

\* one turn of the loop of Phase1
Phase1Line ==
  /\ at = "phase1" /\ ~LoopEnd(Machine)
  /\ \E m \in {ReadNext(ParseLine([Machine EXCEPT !.LiNo = @ + 1], Line))} :
       /\ Install(m)
       /\ at' = IF m.fatal # "" THEN "exit" ELSE "phase1"
  /\ UNCHANGED <<exprVars, files, src, lib, Optimize, capped>>

\* a Phase2 that starts its loop whatever IfLevel is
BeginPhase2_unchecked ==
  /\ at = "phase1" /\ LoopEnd(Machine)
  /\ Install(Fgets([Machine EXCEPT !.Phase = 2, !.pc = -1, !.EnumValue = -1,
                                   !.ForcedEnd = FALSE, !.CPU = 6309,
                                   !.LiNo = 0]))
  /\ at' = IF Len(src) = 0 THEN "write" ELSE "phase2"
  /\ UNCHANGED <<exprVars, files, src, lib, Optimize, capped>>

\* Phase2(), up to the loop
BeginPhase2 ==
  /\ at = "phase1" /\ LoopEnd(Machine)
  /\ LET m == [Machine EXCEPT !.Phase = 2, !.pc = -1, !.EnumValue = -1,
                              !.ForcedEnd = FALSE, !.CPU = 6309]
     IN  IF m.IfLevel # 0
         THEN Install(Exit(m, "Error in conditional assembly")) /\ at' = "exit"
         ELSE /\ Install(Fgets([m EXCEPT !.LiNo = 0]))
              /\ at' = IF Len(src) = 0 THEN "write" ELSE "phase2"
  /\ UNCHANGED <<exprVars, files, src, lib, Optimize, capped>>

\* one turn of the loop of Phase2, with the return at the error cap
Phase2Line ==
  /\ at = "phase2"
  /\ \E m \in {ReadNext(ParseLine([Machine EXCEPT !.LiNo = @ + 1], Line))} :
       /\ Install(m)
       /\ at' = IF m.fatal # "" THEN "exit"
                ELSE IF m.ErrNum >= ERRMAX \/ LoopEnd(m) THEN "write"
                ELSE "phase2"
       /\ capped' = (m.fatal = "" /\ m.ErrNum >= ERRMAX /\ ~LoopEnd(m))
  /\ UNCHANGED <<exprVars, files, src, lib, Optimize>>

\* void WriteBinaries(void)
WriteBinaries ==
  /\ at = "write"
  /\ files' = [i \in 1..Len(SF) |->
                 IF SF[i].SFT = "SRECORD" THEN WriteS19Format(ROM, SF[i]).lines
                 ELSE WriteBinaryFormat(ROM, SF[i])]
  /\ SF' = [i \in 1..Len(SF) |->
              IF SF[i].SFT = "SRECORD"
              THEN [SF[i] EXCEPT !.SFR = WriteS19Format(ROM, SF[i]).SFR]
              ELSE SF[i]]
  /\ at' = "done"
  /\ UNCHANGED <<exprVars, ROM, asmVars>>

\* void ListUndefinedSymbols(void), which main calls after WriteBinaries;
\* main returns ErrNum as the exit code
ListUndefinedSymbols ==
  /\ at = "done"
  /\ Install([Machine EXCEPT !.ErrNum =
                @ + Cardinality({n \in DOMAIN lab : lab[n].Address = UNDEF})])
  /\ at' = "end"
  /\ UNCHANGED <<exprVars, files, src, lib, Optimize, capped>>


-----------------------------------------------------------------------------
(* Specification SpecAsm: the assembler run on bounded source files *)

\* the machine before main scans the command line
Machine0 ==
  [Phase |-> 0, LiNo |-> 0, pc |-> -1, lab |-> <<>>, ROM |-> <<>>,
   LOCK |-> {}, ADL |-> <<>>, ErrNum |-> 0, IfLevel |-> 0,
   SkipLine |-> [i \in 0..9 |-> FALSE], Skipping |-> FALSE,
   ForcedEnd |-> FALSE, EnumValue |-> -1, SF |-> <<>>, fatal |-> "",
   ub |-> FALSE, written |-> <<>>, ilog |-> <<>>, deflog |-> <<>>,
   asglog |-> <<>>, CPU |-> 6309, DimOp |-> DIMOP_6309,
   sf |-> "src", IncludeStack |-> <<>>, Line |-> <<>>,
   Mac |-> <<>>, MacPtr |-> <<>>, MacArgs |-> <<>>, maclog |-> <<>>,
   DP |-> 0, ol |-> 0, bss |-> 0,
   oc |-> -1, ql |-> 0, il |-> 0, pb |-> -1, nops |-> 0,
   ForcedMode |-> 0, v |-> UNDEF, tgt |-> UNDEF, puts |-> 0]

\* main, the options -D: DefineLabel(argv[ic]+2,&v,1) for each, in order
RECURSIVE CmdDefines(_, _)
CmdDefines(m, defs) ==
  IF defs = <<>> THEN m
  ELSE CmdDefines(DefineLabel(m, Head(defs), 1, TRUE).m, Tail(defs))

\* the state when main calls Phase1: the source file holds lines, -o was
\* given if opt, and defs are the texts of the options -D
Loaded(lines, opt, defs, file) ==
  /\ src = lines /\ Optimize = opt
  /\ lib = file /\ sf = "src" /\ IncludeStack = <<>> /\ Line = <<>>
  /\ Mac = <<>> /\ MacPtr = <<>> /\ MacArgs = <<>> /\ maclog = <<>>
  /\ DP = 0 /\ ol = 0 /\ bss = 0
  /\ lab = CmdDefines(Machine0, defs).lab
  /\ Phase = 0 /\ LiNo = 0 /\ pc = -1
  /\ LOCK = {} /\ ADL = <<>>
  /\ ErrNum = 0 /\ IfLevel = 0
  /\ SkipLine = [i \in 0..9 |-> FALSE] /\ Skipping = FALSE
  /\ ForcedEnd = FALSE /\ EnumValue = -1
  /\ fatal = "" /\ ub = FALSE
  /\ written = <<>> /\ ilog = <<>> /\ deflog = <<>>
  /\ asglog = CmdDefines(Machine0, defs).asglog
  /\ capped = FALSE
  /\ CPU = 6309 /\ DimOp = DIMOP_6309
  /\ ROM = <<>> /\ SF = <<>> /\ files = <<>>
  /\ OpText = <<>> /\ val = EvalExit("", 1, ExprEnv)
  /\ at = "main"

NextAsm ==
  \/ BeginPhase1
  \/ Phase1Line
  \/ BeginPhase2
  \/ Phase2Line
  \/ WriteBinaries
  \/ ListUndefinedSymbols


\* a source line: label, mnemonic or keyword, operand
Stmt(label, op, arg) ==
  label \o <<" ">> \o op \o (IF arg = <<>> THEN <<>> ELSE <<" ">> \o arg)

Org(a)  == Stmt(<<>>, PseudoTab[6], a)
Nop     == Stmt(<<>>, Mat[2].Mne, <<>>)
Lda(a)  == Stmt(<<>>, Mat[7].Mne, a)
Let(n, a) == n \o <<" ", "=", " ">> \o a
Def(n, k, a) == n \o <<" ">> \o LabDef[k].Name \o <<" ">> \o a
StoreTo(a, n) ==
  Stmt(<<>>, PseudoTab[8], a \o <<",">> \o n \o <<",", "\"", "o", "\"">>)

A0012 == <<"$", "0", "0", "1", "2">>
A1000 == <<"$", "1", "0", "0", "0">>
A1001 == <<"$", "1", "0", "0", "1">>
A1002 == <<"$", "1", "0", "0", "2">>
A1080 == <<"$", "1", "0", "8", "0">>
A1090 == <<"$", "1", "0", "9", "0">>
A1100 == <<"$", "1", "1", "0", "0">>
A1200 == <<"$", "1", "2", "0", "0">>
A2012 == <<"$", "2", "0", "1", "2">>
AFFFF == <<"$", "F", "F", "F", "F">>

\* the largest number of NOP lines after ORG $FFFF
MaxNops == 11

\* END, between ifdef U and endif to have it skipped
EndLines(skipped) ==
  IF skipped
  THEN << <<"#", "i", "f", "d", "e", "f", " ", "U">>, Stmt(<<>>, PseudoTab[3], <<>>),
          <<"#", "e", "n", "d", "i", "f">> >>
  ELSE <<Stmt(<<>>, PseudoTab[3], <<>>)>>

\* The families of source files.
\*  branch:  a branch or jump (Mat[br]) to a label behind (T) or ahead (F),
\*           near, or far when an ORG lies between
\*  forward: LDA with an operand that refers to K, which is defined later
\*  label:   a label defined by position after data whose size differs
\*           between the passes when K is 1; re defines the label again
\*  cond:    conditional assembly on a symbol that is defined later
\*  moved:   a label whose position moves by one byte between the passes,
\*           because a conditional line is assembled in pass 2 only; when
\*           assign, the label is assigned U, which is defined later, first
\*  assign:  V is defined by value twice, with the keywords LabDef[k1] and
\*           LabDef[k2]; when locked, V is defined with -D as well
\*  cpu:     the mnemonic Mat[k] after CPU = set (no CPU line when set is
\*           empty); when late, the CPU line follows the instructions
\*  low:     LDA with the immediate operand #<v
\*  end:     END in the source file or in the included file, also between
\*           ifdef U and endif, where it is skipped
\*  load:    LOAD and an instruction at the same or the next address
\*  cap:     n instructions at $FFFF, each an error in pass 2, and a STORE
\*  retarget: a long branch (Mat[br]) at $1090 to T, which is assigned
\*           $1080 in pass 1 and $1000 in pass 2 by conditional assembly
\*           on L, which is defined later
\*  range:   BYTE 1,2 (when data) or LDA #1 after ORG org, or with no ORG
\*           line in front when org is empty
\*  bss:     P BSS n and (two) Q BSS 1 in front of ORG $1000 and LDA P (and
\*           LDA Q); amp: the first line is & = $80
\*  indirect: the mnemonic Mat[k] with the operand [$1234] behind nothing
\*           (prev = 0), NOP (prev = 2) or CMPU #1 (prev = 9), and with
\*           NOP behind it (tail)
\*  direct:  the mnemonic Mat[k] with an address as operand: the constant
\*           adr, or K = adr defined in front (sym = "early") or behind
\*           (sym = "late"); force is the prefix < or > or empty; SETDP dp
\*           is the first line unless dp is empty
\*  pcr:     the mnemonic Mat[k] (opcode of one or two bytes) with the
\*           operand T,PCR or T,PC; T is near, or far when gap
AsmShapes ==
  [fam : {"branch"}, br : {1, 3, 4, 5, 8}, to : {<<"T">>, <<"F">>},
   gapB : BOOLEAN, gapF : BOOLEAN, opt : BOOLEAN]
  \cup
  [fam : {"forward"}, arg : {<<"K", ",", "X">>, <<"K">>, <<"#", "K">>,
                             <<"K", ",", "P", "C", "R">>},
   k : {<<"1">>, <<"5", "2">>, <<"3", "0", "0">>}, nop : BOOLEAN]
  \cup
  [fam : {"label"}, re : {"", "undef", "equal", "again"},
   k : {<<"1">>, <<"3", "0", "0">>}, locked : BOOLEAN]
  \cup
  [fam : {"cond"}, x : {1, 2, 3, 4}, y : {1, 2, 3, 4}, else : BOOLEAN]
  \cup
  [fam : {"moved"}, assign : BOOLEAN, u : {A1001, A1002}]
  \cup
  [fam : {"assign"}, k1 : 1..LABTYPES, k2 : 1..LABTYPES,
   v2 : {<<"1">>, <<"2">>}, locked : BOOLEAN]
  \cup
  [fam : {"cpu"}, set : {<<>>, <<"6","8","0","9">>, <<"6","3","0","9">>},
   k : 1..Len(Mat), late : BOOLEAN]
  \cup
  [fam : {"low"}, v : {<<"3","4">>, <<"1","2","3","4">>, <<"F","F","F","F">>}]
  \cup
  [fam : {"end"}, in : {"src", "lib", "none"}, skipped : BOOLEAN,
   include : BOOLEAN]
  \cup
  [fam : {"load"}, first : BOOLEAN, file : {<<"f">>, <<"g">>},
   quoted : BOOLEAN, b : {A1000, A1001}]
  \cup
  [fam : {"cap"}, first : BOOLEAN, n : 0..MaxNops]
  \cup
  [fam : {"retarget"}, br : {3, 8}, opt : BOOLEAN, rts : BOOLEAN]
  \cup
  [fam : {"range"}, org : {<<>>, A1000, AFFFF}, data : BOOLEAN]
  \cup
  [fam : {"bss"}, n : {<<"0">>, <<"2">>}, two : BOOLEAN, amp : BOOLEAN]
  \cup
  [fam : {"indirect"}, k : {7, 9}, prev : {0, 2, 9}, tail : BOOLEAN]
  \cup
  [fam : {"direct"}, k : {7, 9}, adr : {A0012, A2012},
   sym : {"", "early", "late"}, force : {<<>>, <<"<">>, <<">">>},
   dp : {<<>>, <<"$", "2", "0">>}]
  \cup
  [fam : {"pcr"}, k : {7, 9, 10, 12}, gap : BOOLEAN,
   reg : {<<"P", "C", "R">>, <<"P", "C">>}]

\* the statements of the family cond
CondStmt(i) ==
  CASE i = 1 -> Nop
    [] i = 2 -> Stmt(<<>>, Mat[6].Mne, <<>>)
    [] i = 3 -> Lda(<<"#", "1">>)
    [] i = 4 -> Stmt(<<"A">>, Mat[2].Mne, <<>>)

LoadStmt(sh) ==
  Stmt(<<>>, PseudoTab[5],
       (IF sh.quoted THEN <<>> ELSE A1000 \o <<",">>)
         \o <<"\"">> \o sh.file \o <<"\"">>)

\* the source file of a shape
Source(sh) ==
  CASE sh.fam = "branch" ->
         <<Org(A1000), Stmt(<<"T">>, Mat[2].Mne, <<>>)>>
           \o (IF sh.gapB THEN <<Org(A1100)>> ELSE <<>>)
           \o <<Stmt(<<>>, Mat[sh.br].Mne, sh.to)>>
           \o (IF sh.gapF THEN <<Org(A1200)>> ELSE <<>>)
           \o <<Stmt(<<"F">>, Mat[6].Mne, <<>>)>>
    [] sh.fam = "forward" ->
         <<Org(A1000), Lda(sh.arg)>>
           \o (IF sh.nop THEN <<Nop>> ELSE <<>>)
           \o <<Let(<<"K">>, sh.k), StoreTo(A1000, <<"6">>)>>
    [] sh.fam = "label" ->
         <<Org(A1000), Stmt(<<>>, PseudoTab[1], <<"K">>),
           Stmt(<<"A">>, Mat[2].Mne, <<>>)>>
           \o (CASE sh.re = "undef" -> <<Let(<<"A">>, <<"U">>)>>
                 [] sh.re = "equal" -> <<Let(<<"A">>, A1001)>>
                 [] sh.re = "again" -> <<Stmt(<<"A">>, Mat[2].Mne, <<>>)>>
                 [] OTHER -> <<>>)
           \o <<Let(<<"K">>, sh.k), StoreTo(A1000, <<"4">>)>>
    [] sh.fam = "cond" ->
         <<Org(A1000), <<"#", "i", "f", "d", "e", "f", " ", "L">>,
           CondStmt(sh.x)>>
           \o (IF sh.else THEN << <<"#", "e", "l", "s", "e">> >>
               ELSE << <<"#", "e", "n", "d", "i", "f">>,
                       <<"#", "i", "f", "n", "d", "e", "f", " ", "L">> >>)
           \o <<CondStmt(sh.y), <<"#", "e", "n", "d", "i", "f">>,
                Let(<<"L">>, <<"1">>), StoreTo(A1000, <<"4">>)>>
    [] sh.fam = "moved" ->
         <<Org(A1000)>>
           \o (IF sh.assign THEN <<Let(<<"A">>, <<"U">>)>> ELSE <<>>)
           \o <<<<"#", "i", "f", "d", "e", "f", " ", "L">>, Nop,
                <<"#", "e", "n", "d", "i", "f">>, Nop,
                Stmt(<<"A">>, Mat[2].Mne, <<>>),
                <<"#", "i", "f", "n", "d", "e", "f", " ", "L">>, Nop,
                <<"#", "e", "n", "d", "i", "f">>, Let(<<"U">>, sh.u),
                Let(<<"L">>, <<"1">>), StoreTo(A1000, <<"4">>)>>
    [] sh.fam = "assign" ->
         <<Def(<<"V">>, sh.k1, <<"1">>), Def(<<"V">>, sh.k2, sh.v2),
           Org(A1000), Stmt(<<>>, PseudoTab[1], <<"V">>),
           StoreTo(A1000, <<"1">>)>>
    [] sh.fam = "cpu" ->
         (IF sh.set = <<>> \/ sh.late THEN <<>>
          ELSE <<Stmt(<<>>, PseudoTab[2], <<"=", " ">> \o sh.set)>>)
         \o <<Org(A1000),
              Stmt(<<>>, Mat[sh.k].Mne,
                   IF Mat[sh.k].Inherent >= 0 THEN <<>>
                   ELSE IF Mat[sh.k].Immediate >= 0 THEN <<"#", "1">>
                   ELSE A1000),
              Nop>>
         \o (IF sh.set # <<>> /\ sh.late
             THEN <<Stmt(<<>>, PseudoTab[2], <<"=", " ">> \o sh.set)>>
             ELSE <<>>)
         \o <<StoreTo(A1000, <<"4">>)>>
    [] sh.fam = "low" ->
         <<Org(A1000), Lda(<<"#", "<", "$">> \o sh.v), StoreTo(A1000, <<"4">>)>>
    [] sh.fam = "end" ->
         <<Org(A1000), StoreTo(A1000, <<"4">>)>>
         \o (IF sh.include
             THEN <<Stmt(<<>>, PseudoTab[4], <<"\"">> \o IncludeName \o <<"\"">>)>>
             ELSE <<>>)
         \o (IF sh.in = "src" THEN EndLines(sh.skipped) ELSE <<>>)
         \o <<Lda(<<"#", "1">>)>>
    [] sh.fam = "load" ->
         <<Org(A1000), IF sh.first THEN LoadStmt(sh) ELSE Nop, Org(sh.b),
           IF sh.first THEN Nop ELSE LoadStmt(sh), StoreTo(A1000, <<"4">>)>>
    [] sh.fam = "cap" ->
         <<Org(AFFFF)>>
           \o (IF sh.first THEN <<StoreTo(AFFFF, <<"1">>)>> ELSE <<>>)
           \o [i \in 1..sh.n |-> Nop]
           \o (IF sh.first THEN <<>> ELSE <<StoreTo(AFFFF, <<"1">>)>>)
    [] sh.fam = "retarget" ->
         <<Org(A1000), <<"#", "i", "f", "d", "e", "f", " ", "L">>,
           Let(<<"T">>, A1000), <<"#", "e", "l", "s", "e">>,
           Let(<<"T">>, A1080), <<"#", "e", "n", "d", "i", "f">>,
           Org(A1090), Stmt(<<>>, Mat[sh.br].Mne, <<"T">>)>>
           \o (IF sh.rts THEN <<Stmt(<<>>, Mat[6].Mne, <<>>)>> ELSE <<>>)
           \o <<Let(<<"L">>, <<"1">>), StoreTo(A1090, <<"4">>)>>
    [] sh.fam = "range" ->
         (IF sh.org = <<>> THEN <<>> ELSE <<Org(sh.org)>>)
           \o <<IF sh.data THEN Stmt(<<>>, PseudoTab[1], <<"1", ",", "2">>)
                ELSE Lda(<<"#", "1">>),
                StoreTo(<<"0">>, <<"2">>)>>
    [] sh.fam = "bss" ->
         (IF sh.amp THEN <<<<"&", " ", "=", " ", "$", "8", "0">>>> ELSE <<>>)
           \o <<Stmt(<<"P">>, <<"B", "S", "S">>, sh.n)>>
           \o (IF sh.two THEN <<Stmt(<<"Q">>, <<"B", "S", "S">>, <<"1">>)>>
               ELSE <<>>)
           \o <<Org(A1000), Lda(<<"P">>)>>
           \o (IF sh.two THEN <<Lda(<<"Q">>)>> ELSE <<>>)
           \o <<StoreTo(A1000, <<"4">>)>>
    [] sh.fam = "indirect" ->
         <<Org(A1000)>>
           \o (IF sh.prev = 0 THEN <<>>
               ELSE <<Stmt(<<>>, Mat[sh.prev].Mne,
                           IF sh.prev = 9 THEN <<"#", "1">> ELSE <<>>)>>)
           \o <<Stmt(<<>>, Mat[sh.k].Mne, <<"[", "$", "1", "2", "3", "4", "]">>)>>
           \o (IF sh.tail THEN <<Nop>> ELSE <<>>)
           \o <<StoreTo(A1000, <<"1", "0">>)>>
    [] sh.fam = "direct" ->
         (IF sh.dp = <<>> THEN <<>> ELSE <<Stmt(<<>>, PseudoTab[7], sh.dp)>>)
           \o (IF sh.sym = "early" THEN <<Let(<<"K">>, sh.adr)>> ELSE <<>>)
           \o <<Org(A1000),
                Stmt(<<>>, Mat[sh.k].Mne,
                     sh.force \o (IF sh.sym = "" THEN sh.adr ELSE <<"K">>))>>
           \o (IF sh.sym = "late" THEN <<Let(<<"K">>, sh.adr)>> ELSE <<>>)
           \o <<StoreTo(A1000, <<"4">>)>>
    [] sh.fam = "pcr" ->
         <<Org(A1000), Stmt(<<"T">>, Mat[2].Mne, <<>>)>>
           \o (IF sh.gap THEN <<Org(A1100)>> ELSE <<>>)
           \o <<Stmt(<<>>, Mat[sh.k].Mne, <<"T", ",">> \o sh.reg),
                StoreTo(IF sh.gap THEN A1100 ELSE A1000, <<"6">>)>>

\* the options of a shape: -o, and -DA=5 for a locked label
OptionO(sh) == sh.fam \in {"branch", "retarget"} /\ sh.opt
\* the included file
Included(sh) ==
  IF sh.fam = "end"
  THEN <<Nop>> \o (IF sh.in = "lib" THEN EndLines(sh.skipped) ELSE <<>>)
       \o <<Stmt(<<>>, Mat[6].Mne, <<>>)>>
  ELSE <<>>

OptionD(sh) ==
  IF sh.fam = "label" /\ sh.locked THEN << <<"A", "=", "5">> >>
  ELSE IF sh.fam = "assign" /\ sh.locked THEN << <<"V", "=", "5">> >>
  ELSE <<>>

InitAsm ==
  /\ shape \in AsmShapes
  /\ Loaded(Source(shape), OptionO(shape), OptionD(shape), Included(shape))

SpecAsm == InitAsm /\ [][NextAsm]_vars

\* no modelled run executes an operation with undefined behaviour
NoUB == ~ub

-----------------------------------------------------------------------------
(* Runs of the assembler on source files of conditional directives *)

\* the directives: ifdef and ifndef of the undefined symbol U, if of a
\* constant, else and endif
Endif == <<"#", "e", "n", "d", "i", "f">>
Opening == << <<"#", "i", "f", "d", "e", "f", " ", "U">>,
              <<"#", "i", "f", "n", "d", "e", "f", " ", "U">>,
              <<"#", "i", "f", " ", "1">>,
              <<"#", "i", "f", " ", "0">> >>
Directives == Opening \o << <<"#", "e", "l", "s", "e">>, Endif >>

\* the largest number of directives in a row of the family nest
MaxDepth == 11

\* the largest number of directives of the family dirs
MaxDirs == 4

\* n copies of the line l
RECURSIVE Copies(_, _)
Copies(n, l) == IF n = 0 THEN <<>> ELSE <<l>> \o Copies(n - 1, l)

\* a NOP after every directive of the sequence d
RECURSIVE Interleave(_)
Interleave(d) ==
  IF d = <<>> THEN <<>>
  ELSE <<Directives[Head(d)], Nop>> \o Interleave(Tail(d))

\* The families of source files.
\*  nest:  n times the opening directive k, a NOP, and n times endif
\*  dirs:  a sequence d of directives, a NOP after each
CondShapes ==
  [fam : {"nest"}, n : 0..MaxDepth, k : 1..Len(Opening)]
  \cup
  [fam : {"dirs"}, d : UNION {[1..n -> 1..Len(Directives)] : n \in 1..MaxDirs}]

CondSource(sh) ==
  <<Org(A1000)>>
  \o (IF sh.fam = "nest"
      THEN Copies(sh.n, Opening[sh.k]) \o <<Nop>>
           \o Copies(sh.n, Endif) \o <<Nop>>
      ELSE Interleave(sh.d))
  \o <<StoreTo(A1000, <<"4">>)>>

InitCond ==
  /\ shape \in CondShapes
  /\ Loaded(CondSource(shape), FALSE, <<>>, <<>>)

SpecCond == InitCond /\ [][NextAsm]_vars

-----------------------------------------------------------------------------
(* Specification SpecMac: the assembler run on files that define and call  *)
(* a macro                                                                 *)

\* the largest number of parameters of the macro
MaxParams == 2

\* the largest number of arguments of the call
MaxArgs == 3

\* the list pre1,pre2,...,pren
RECURSIVE List(_, _)
List(n, pre) ==
  IF n = 0 THEN <<>>
  ELSE (IF n = 1 THEN <<>> ELSE List(n - 1, pre) \o <<",">>)
         \o pre \o <<DecDigits[n + 1]>>

InParens(t) == <<"(">> \o t \o <<")">>

\* The family of source files: the macro M with the parameters p1..pn, a
\* line BYTE pi for each, is defined in the form MACRO M(p1,p2) (type 0) or
\* M MACRO p1,p2 (type 1) and called with the arguments 1,2,.., in
\* parentheses or not, behind the label L or not.
\* The family nested: the macro N(q1) with the line BYTE q1, and the macro
\* M(p1) with the lines BYTE p1, N inner, BYTE p1, called as M outer
MacShapes ==
  [fam : {"macro"}, type : {0, 1}, params : 0..MaxParams, args : 0..MaxArgs,
   paren : BOOLEAN, label : BOOLEAN]
  \cup
  [fam : {"nested"}, outer : {<<"1">>, <<"2">>}, inner : {<<"1">>, <<"9">>},
   paren : BOOLEAN]

\* the lines MACRO name(p) ... ENDM
MacroDef(name, p, body) ==
  <<Stmt(<<>>, <<"M", "A", "C", "R", "O">>, name \o InParens(p))>>
  \o body \o <<Stmt(<<>>, <<"E", "N", "D", "M">>, <<>>)>>

NestedSource(sh) ==
  <<Org(A1000), StoreTo(A1000, <<"4">>)>>
  \o MacroDef(<<"N">>, <<"q", "1">>, <<Stmt(<<>>, PseudoTab[1], <<"q", "1">>)>>)
  \o MacroDef(<<"M">>, <<"p", "1">>,
              <<Stmt(<<>>, PseudoTab[1], <<"p", "1">>),
                Stmt(<<>>, <<"N">>,
                     IF sh.paren THEN InParens(sh.inner) ELSE sh.inner),
                Stmt(<<>>, PseudoTab[1], <<"p", "1">>)>>)
  \o <<Stmt(<<>>, <<"M">>, IF sh.paren THEN InParens(sh.outer) ELSE sh.outer),
       Stmt(<<>>, Mat[6].Mne, <<>>)>>

MacSource(sh) ==
  IF sh.fam = "nested" THEN NestedSource(sh) ELSE
  <<Org(A1000), StoreTo(A1000, <<"4">>),
    IF sh.type = 0
    THEN Stmt(<<>>, <<"M", "A", "C", "R", "O">>,
              <<"M">> \o InParens(List(sh.params, <<"p">>)))
    ELSE Stmt(<<"M">>, <<"M", "A", "C", "R", "O">>, List(sh.params, <<"p">>))>>
  \o (IF sh.params = 0 THEN <<Nop>>
      ELSE [i \in 1..sh.params |->
              Stmt(<<>>, PseudoTab[1], <<"p", DecDigits[i + 1]>>)])
  \o <<Stmt(<<>>, <<"E", "N", "D", "M">>, <<>>),
       Stmt(IF sh.label THEN <<"L">> ELSE <<>>, <<"M">>,
            IF sh.paren THEN InParens(List(sh.args, <<>>))
            ELSE List(sh.args, <<>>)),
       Stmt(<<>>, Mat[6].Mne, <<>>)>>

InitMac ==
  /\ shape \in MacShapes
  /\ Loaded(MacSource(shape), FALSE, <<>>, <<>>)

SpecMac == InitMac /\ [][NextAsm]_vars

-----------------------------------------------------------------------------
(* Properties of an assembler run *)

\* C1: for every instruction assembled in pass 2 of a run that completes,
\* the number of bytes written to ROM for it (opcode, post byte, operand
\* and NOP padding) equals the length pass 1 recorded at its pc, and pc
\* advances by exactly that length
C1_LengthLock ==
  (at = "done" /\ ErrNum = 0) =>
    \A i \in 1..Len(ilog) :
      /\ ilog[i].puts = ilog[i].ADL
      /\ ilog[i].next - ilog[i].pc = ilog[i].ADL

\* C2: in a run that completes pass 2 without an error, every label that
\* is not locked and was defined by position in pass 1 is defined at the
\* same pc in pass 2
C2_PhaseStable ==
  (at \in {"write", "done"} /\ ErrNum = 0) =>
    \A i, j \in 1..Len(deflog) :
      (/\ deflog[i].Phase = 1 /\ deflog[j].Phase = 2
       /\ deflog[i].Name = deflog[j].Name /\ ~deflog[j].Locked)
      => deflog[i].pc = deflog[j].pc

\* C3: in a run that completes without an error, every byte address that
\* was written received the same value from all its writers (a different
\* value for a written byte stops the run instead of being stored)
C3_NonOverwrite ==
  (at = "done" /\ ErrNum = 0) =>
    \A a \in DOMAIN written : Cardinality(written[a]) <= 1

\* the mnemonic was assembled with another opcode than its own: the
\* optimizer rewrote the branch or jump
Rewritten(e) ==
  \/ e.Mne = <<"B","R","A">> /\ e.oc = 22
  \/ e.Mne = <<"B","N","E">> /\ e.oc = 4134
  \/ e.Mne = <<"L","B","N","E">> /\ e.oc = 38
  \/ e.Mne = <<"L","B","R","A">> /\ e.oc = 32
  \/ e.Mne = <<"J","M","P">> /\ e.oc = 32

\* the displacement the processor reads from the operand of e: one byte is
\* sign extended, two bytes are added modulo 65536
Displacement(e) ==
  IF e.ql = 1 THEN IF e.v % 256 > 127 THEN (e.v % 256) - 256 ELSE e.v % 256
  ELSE e.v % 65536

\* C4: with the optimizer enabled, every branch or jump the optimizer
\* rewrote is emitted with a displacement that leads from the address after
\* the emitted instruction to the target address of the operand (mod 65536)
C4_RewriteReachesTarget ==
  Optimize =>
    \A i \in 1..Len(ilog) :
      Rewritten(ilog[i]) =>
        (ilog[i].pc + ilog[i].ol + ilog[i].ql + Displacement(ilog[i])) % 65536
          = ilog[i].tgt % 65536

\* C5: with the optimizer enabled, a BRA or BNE whose target is further
\* than -128..127 from the end of the short instruction is assembled in its
\* long form (long length recorded in pass 1, long opcode and a two byte
\* displacement in pass 2): the run never stops for a short branch out of
\* range
C5_OutOfRangeMadeLong ==
  Optimize =>
    /\ fatal # "Short Branch out of range"
    /\ \A i \in 1..Len(ilog) :
         (/\ ilog[i].Mne \in {<<"B","R","A">>, <<"B","N","E">>}
          /\ ilog[i].tgt - (ilog[i].pc + 2) \notin -128..127)
         => /\ ilog[i].oc \in {22, 4134}
            /\ ilog[i].ql = 2
            /\ ilog[i].ADL = ilog[i].ol + 2

\* C10: no STORE file is written when pass 2 stopped at the error cap
\* before the end of the source
C10_NoOutputWhenCapped == capped => files = <<>>

\* the event i of asglog defines its label again in the same pass: an
\* earlier event of that pass defined the same name with one of the keys
Again(i, keys) ==
  /\ asglog[i].Key \in keys /\ asglog[i].Phase > 0
  /\ \E j \in 1..(i - 1) :
       /\ asglog[j].Name = asglog[i].Name /\ asglog[j].Phase = asglog[i].Phase
       /\ asglog[j].Key \in keys

\* C11: a symbol defined with SET gets the value of a later SET of the same
\* pass without an error, and the symbol table (which expressions read)
\* holds the new value
C11_SetReassigns ==
  \A i \in 1..Len(asglog) :
    (Again(i, {<<"S","E","T">>}) /\ ~asglog[i].Locked /\ asglog[i].v # UNDEF)
    => asglog[i].fatal = "" /\ asglog[i].new = asglog[i].v

\* C12: a second definition with = or EQU in the same pass with a different
\* value stops the run and leaves the value of the symbol unchanged
C12_ConstantOnce ==
  \A i \in 1..Len(asglog) :
    (/\ Again(i, {<<"=">>, <<"E","Q","U">>}) /\ ~asglog[i].Locked
     /\ asglog[i].old # UNDEF /\ asglog[i].v # asglog[i].old)
    => asglog[i].fatal # "" /\ asglog[i].new = asglog[i].old

\* C13: a symbol defined with -D keeps the value of the option: no
\* definition in the source changes it, in either pass
C13_DefineLocked ==
  \A i \in 1..Len(asglog) :
    asglog[i].Phase = 0 =>
      /\ asglog[i].Name \in DOMAIN lab
      /\ lab[asglog[i].Name].Address = asglog[i].new

\* C14: while the table is cut to the 6809 (CPU = 6809), the mnemonics that
\* IsInstruction recognizes are those of the entries with the 6809 tag, and
\* a mnemonic with the 6309 tag is not taken for something else (a label)
\* without an error
C14_Cpu6809Mnemonics ==
  DimOp = DIMOP_6809 =>
    /\ \A k \in 1..Len(Mat) :
         (IsInstruction(Mat[k].Mne, 1, DimOp) = k) <=> (Mat[k].CPU = 0)
    /\ (\E k \in 1..Len(Mat) : Mat[k].CPU = 1 /\ Mat[k].Mne \in DOMAIN lab)
       => (fatal # "" \/ ErrNum > 0)

\* C20: the operand #<v of a one byte immediate instruction is the low byte
\* of v and is accepted for every 16 bit value v
C20_LowByteImmediate ==
  shape.fam = "low" =>
    /\ fatal = ""
    /\ \A i \in 1..Len(ilog) : ilog[i].v = HexValue(shape.v) % 256

\* the line in the buffer is an END statement and is not skipped
EndLine ==
  /\ ~Skipping
  /\ PseudoIndex(Line, SkipSpace(Line, SkipHexCode(Line))) = 3

\* no line will be parsed any more in the current pass
PassOver ==
  \/ at \in {"write", "done", "exit"}
  \/ at = "phase1" /\ LoopEnd(Machine)

\* C19: the turn of the loop of a pass that parses an END statement outside
\* a skipped region is the last one of the pass, in the source file and in
\* an included file
C19_EndStopsPass ==
  [][(at \in {"phase1", "phase2"} /\ Phase' = Phase /\ EndLine) => PassOver']_vars

-----------------------------------------------------------------------------
(* Properties of conditional assembly *)

\* C15: ten nested if, ifdef or ifndef directives are accepted; the run
\* stops for the nesting depth only at an eleventh open level
C15_TenLevels ==
  fatal = "More than 10  IF or IFDEF conditions nested" => IfLevel > 10

\* the line n of the source is an endif directive
EndifAt(n) ==
  LET i == SkipSpace(src[n], SkipHexCode(src[n]))
  IN  strcmpword(src[n], IF At(src[n], i) = "#" THEN i + 1 ELSE i,
                 <<"e","n","d","i","f">>)

\* C16: after every directive Skipping is the OR of SkipLine[1..IfLevel],
\* so an endif brings back the state of the enclosing levels; and a source
\* line (a NOP) is skipped, leaving the program counter where it is, iff a
\* level that is open when the line is read is in its false branch
C16_SkipIsOrOfLevels ==
  [][fatal' = "" =>
       /\ Skipping' = (\E i \in 1..IfLevel' : SkipLine'[i])
       /\ (LiNo' = LiNo + 1 /\ src[LiNo'] = Nop)
          => ((pc' = pc) <=> (\E i \in 1..IfLevel : SkipLine[i]))]_vars

\* a NOP was read and skipped below an open level in its false branch while
\* the level above it is in its true branch
C16_Witness ==
  /\ fatal = "" /\ Phase = 2 /\ LiNo > 0 /\ src[LiNo] = Nop
  /\ IfLevel >= 2 /\ Skipping /\ SkipLine[1] /\ ~SkipLine[IfLevel]

\* C17: when pass 1 ends with a conditional still open, pass 2 stops the run
\* before it reads a source line; an endif read while no conditional is open
\* stops the run at that line
C17_Unbalanced ==
  [][/\ (Phase = 1 /\ Phase' = 2 /\ IfLevel > 0)
        => (at' = "exit" /\ fatal' = "Error in conditional assembly")
     /\ (LiNo' = LiNo + 1 /\ IfLevel = 0 /\ EndifAt(LiNo'))
        => (at' = "exit" /\ fatal' = "endif without if")]_vars

\* pass 1 ended with open conditionals and the run has stopped at the start
\* of pass 2, no line of it read and nothing written
C17_Witness ==
  /\ at = "exit" /\ Phase = 2 /\ IfLevel > 0 /\ LiNo = Len(src)
  /\ fatal = "Error in conditional assembly" /\ ilog = <<>> /\ files = <<>>

-----------------------------------------------------------------------------
(* Properties of macro calls *)

\* the number of arguments that the text t of a call supplies: the items
\* between the commas in front of the closing parenthesis
Supplied(t) ==
  LET e == CHOOSE j \in 1..(Len(t) + 1) :
             /\ j <= Len(t) => t[j] = ")"
             /\ \A k \in 1..(j - 1) : t[k] # ")"
      a == SubSeq(t, 1, e - 1)
  IN  IF \A k \in 1..Len(a) : a[k] = " " THEN 0
      ELSE Cardinality({k \in 1..Len(a) : a[k] = ","}) + 1

\* C18: a call of a macro is expanded if and only if it supplies as many
\* arguments as the macro has parameters; with fewer or with more the run
\* ends with a fatal error.
C18_ArgumentCount ==
  \A i \in 1..Len(maclog) :
    (maclog[i].fatal = "") <=> (Supplied(maclog[i].OpText) = maclog[i].Narg)

\* the bytes that the encoding of the pass 2 instruction e takes: opcode,
\* post byte and operand
Encoded(e) == e.ol + (IF e.pb >= 0 THEN 1 ELSE 0) + e.ql

C22_BranchNotLonger ==
  Optimize =>
    \A i \in 1..Len(ilog) :
      ilog[i].Mne \in {Mat[k].Mne : k \in {1, 3, 4, 5, 8}} =>
        Encoded(ilog[i]) <= ilog[i].ADL

\* C23: for an operand offset,PCR or offset,PC (post byte 140 = 0x8C with a
\* displacement of 8 bits, 141 = 0x8D with 16 bits) the displacement stored
\* is the operand value minus the address behind the instruction, whether
\* the opcode has one byte or two
C23_PCRelativeDisplacement ==
  \A i \in 1..Len(ilog) :
    ilog[i].pb \in {140, 141} =>
      (ilog[i].pc + Encoded(ilog[i]) + Displacement(ilog[i])) % 65536
        = ilog[i].tgt % 65536

\* C26: pass 2 starts with the processor set to the 6309 and the whole
\* mnemonic table in use, whatever CPU directives pass 1 has read
C26_Pass2StartsAs6309 ==
  [][(Phase = 1 /\ Phase' = 2) => (CPU' = 6309 /\ DimOp' = DIMOP_6309)]_vars

\* C28: the arguments of a macro call belong to its level of expansion: a
\* line of the body of the outer macro M that is expanded after the call of
\* the inner macro N has ended (the third line of M, BYTE p1) is
\* substituted with the argument of the call of M
C28_ArgumentsPerLevel ==
  (/\ shape.fam = "nested" /\ fatal = ""
   /\ Len(MacPtr) = 1 /\ MacPtr[1].pos = 4)
  => Line = Stmt(<<>>, PseudoTab[1], shape.outer)

\* C29: a run on a source whose only symbol is one that is never defined
\* and is tested by ifdef or ifndef, and that is free of errors otherwise,
\* ends with the error count (the exit code of the program) 0
C29_TestOfUndefinedIsNoError == at = "end" => ErrNum = 0

\* C30: every byte that is stored into the ROM image (and locked) is stored
\* at an address in 0..65535: nothing is stored while the program counter
\* is undefined, and nothing behind the end of the 64 KB
C30_WritesInRange == \A a \in DOMAIN written : a \in 0..65535

\* what pass 1 selects for the instruction of a shape of the family direct
\* by the rule of C25: the direct mode iff the operand is forced with <, or
\* is not forced with > and is defined when pass 1 reads the line with the
\* high byte equal to the direct page set with SETDP (0 without SETDP)
DirectByRule(sh) ==
  /\ Mat[sh.k].Direct >= 0
  /\ \/ sh.force = <<"<">>
     \/ /\ sh.force = <<>>
        /\ sh.sym # "late"
        /\ HexValue(Tail(sh.adr)) \div 256
             = (IF sh.dp = <<>> THEN 0 ELSE HexValue(Tail(sh.dp)))

\* C25: an instruction whose operand is an address (not immediate, indexed
\* or indirect) is assembled in pass 2 with the opcode and the length of
\* the mode that pass 1 selected by the rule, whatever the operand is worth
\* in pass 2
C25_DirectOrExtended ==
  shape.fam = "direct" =>
    \A i \in 1..Len(ilog) :
      /\ ilog[i].oc = (IF DirectByRule(shape) THEN Mat[shape.k].Direct
                       ELSE Mat[shape.k].Extended)
      /\ ilog[i].ql = (IF DirectByRule(shape) THEN 1 ELSE 2)
      /\ Encoded(ilog[i]) = ilog[i].ADL
      /\ ilog[i].next = ilog[i].pc + ilog[i].ADL

\* K is defined behind the instruction with the high byte of the direct
\* page: pass 2 knows the value, and the instruction is assembled extended
C25_Witness ==
  /\ shape.fam = "direct" /\ shape.sym = "late" /\ shape.force = <<>>
  /\ shape.adr = A2012 /\ shape.dp # <<>> /\ at = "end" /\ ErrNum = 0
  /\ Len(ilog) = 1 /\ ilog[1].oc = Mat[shape.k].Extended /\ ilog[1].v = 8210

\* C27: a source that binds labels with BSS and never sets the BSS counter
\* with & = expr is assembled without an error, and in pass 2 every such
\* label has the address that pass 1 gave it
C27_BSSSameInBothPasses ==
  (shape.fam = "bss" /\ ~shape.amp) =>
    /\ fatal = ""
    /\ (Phase = 2 /\ <<"P">> \in DOMAIN lab) => lab[<<"P">>].Address = 0

\* C24: an instruction with an operand in brackets without a comma is
\* assembled as opcode, post byte $9F and the address in 16 bits; the
\* recorded length and the advance of pc are the length of the opcode plus
\* 3, whatever instruction was assembled before it
C24_IndirectExtended ==
  \A i \in 1..Len(ilog) :
    ilog[i].pb = 159 =>
      /\ ilog[i].ql = 2
      /\ ilog[i].ADL = OpcodeLength(ilog[i].oc) + 3
      /\ ilog[i].next = ilog[i].pc + OpcodeLength(ilog[i].oc) + 3

====
